---------------------------- MODULE Spec2Model ----------------------------
(***************************************************************************)
(* A model of the forecasting core of FinancialForecastingDemo:            *)
(*   - RevenueForecaster (src/revenue_forecaster.py): the historical       *)
(*     series builder and the scenario projector;                          *)
(*   - MasterAssumptionsEngine (src/master_assumptions.py): the            *)
(*     assumptions record, the reconciliation engine, the risk factor      *)
(*     catalog and the risk scenario generator;                            *)
(*   - ScenarioManager (src/scenario_manager.py): the scenario store;      *)
(*   - ForecastValidationEngine (src/validation_engine.py): the scenario   *)
(*     confidence score.                                                   *)
(* Python floats are modelled as exact rationals [n, d] in lowest terms,   *)
(* extended with inf, -inf and nan where pandas produces them.             *)
(***************************************************************************)
EXTENDS Integers, Sequences, FiniteSets, TLC

VARIABLES
    \* ---- RevenueForecaster and its caller
    input,            \* the arguments of a run: table, assumptions, periods, scenario
    table,            \* the caller's DataFrame object handed to RevenueForecaster()
    historical_data,  \* self.historical_data
    forecast_data,    \* the DataFrame returned by forecast_revenue
    pc,               \* position of the run: "new", "built", "done"
    run,              \* 1 for the first run on the input, 2 for the repeated run
    prev_forecast,    \* what the first run returned (kept to compare the runs)
    clock,            \* the wall clock read by pd.Timestamp.now() / datetime.now()
    rng,              \* the hidden state of numpy's global random generator
    \* ---- MasterAssumptionsEngine
    assumptions,      \* self.assumptions (a ForecastAssumptions)
    finance_forecast, \* the caller's finance perspective DataFrame
    sales_forecast,   \* the caller's sales perspective DataFrame
    recon_out,        \* what reconcile_forecasts returned under the current
                      \* assumptions, when it has been called under them
    risk_factors,     \* self.risk_factors (the catalog, a list of RiskFactor)
    catalog_calls,    \* how many calls have changed the catalog so far
    risk_out,         \* what calculate_risk_adjusted_forecast returned under
                      \* the current catalog, when it has been called under it
    \* ---- ScenarioManager (st.session_state)
    scenarios,        \* st.session_state.scenarios: name -> scenario record
    dicts,            \* the dict objects that the 'assumptions' entries refer to
    active_scenario,  \* st.session_state.active_scenario
    store_ret,        \* the last call on the store and what it returned
    \* ---- ForecastValidationEngine and its caller
    score_in,         \* the caller's monthly_df and scenarios
    score_out,        \* what calculate_forecast_confidence returned for them
    anomalies_out,    \* what detect_forecast_anomalies returned for them
    \* ---- the callers of the perspective generators
    persp_in,         \* the caller's base_data and projects_df
    persp_out,        \* the last perspective generated under the current
                      \* assumptions, when one has been generated under them
    \* ---- an update of engine.assumptions in flight, and a reader
    upd,              \* the call that is setting fields: its items still to
                      \* set, the record before it and the record after it
    seen,             \* what the reader last read
    updates           \* how many updates of engine.assumptions were begun

forecaster_vars == <<input, table, historical_data, forecast_data, pc, run,
                     prev_forecast, clock, rng>>
engine_vars == <<assumptions, finance_forecast, sales_forecast, recon_out>>
catalog_vars == <<risk_factors, catalog_calls, risk_out>>
store_vars == <<scenarios, dicts, active_scenario, store_ret>>
scorer_vars == <<score_in, score_out, anomalies_out>>
persp_vars == <<persp_in, persp_out>>
reader_vars == <<upd, seen, updates>>
vars == <<forecaster_vars, engine_vars, catalog_vars, store_vars, scorer_vars,
         persp_vars, reader_vars>>

-----------------------------------------------------------------------------
(* Bounds of the model.                                                    *)

\* the longest forecast horizon tried with the coarse assumption records
MaxPeriods == 8
\* the longest horizon tried with the fine-grained assumption records
FinePeriods == 2
\* seeds of the random generator: 0..MaxSeed
MaxSeed == 1
\* rows of a finance or sales forecast handed to reconcile_forecasts
MaxRows == 2
\* the number of calls that change the catalog
MaxCatalogCalls == 3
\* the number of updates of engine.assumptions that readers run beside
MaxUpdates == 1

-----------------------------------------------------------------------------
(* Exact rational arithmetic standing for Python floats.                   *)

Abs(x) == IF x < 0 THEN -x ELSE x

RECURSIVE GCD(_, _)
GCD(a, b) == IF b = 0 THEN a ELSE GCD(b, a % b)

\* the rational n/d in lowest terms with a positive denominator (d # 0)
R(n, d) ==
    LET g == GCD(Abs(n), Abs(d))
        s == IF d < 0 THEN -1 ELSE 1
    IN  [n |-> s * (n \div g), d |-> s * (d \div g)]

Zero == R(0, 1)
One == R(1, 1)
RInt(k) == R(k, 1)
RAdd(a, b) == R(a.n * b.d + b.n * a.d, a.d * b.d)
RSub(a, b) == R(a.n * b.d - b.n * a.d, a.d * b.d)
RMul(a, b) ==
    LET g1 == GCD(Abs(a.n), b.d)
        g2 == GCD(Abs(b.n), a.d)
    IN  R((a.n \div g1) * (b.n \div g2), (a.d \div g2) * (b.d \div g1))
RLt(a, b) == a.n * b.d < b.n * a.d
RLe(a, b) == a.n * b.d <= b.n * a.d
RAbs(a) == [n |-> Abs(a.n), d |-> a.d]
\* Python's max(a, b): b only when b > a
RMax(a, b) == IF RLt(a, b) THEN b ELSE a
RMin(a, b) == IF RLt(b, a) THEN b ELSE a

-----------------------------------------------------------------------------
(* Calendar: a month is counted as year*12 + (month-1); a timestamp is     *)
(* [ym, day, t] with t the time of day (0 is midnight).                    *)

YM(year, month) == year * 12 + (month - 1)
YearOf(ym) == ym \div 12
MonthOf(ym) == (ym % 12) + 1
\* ((month-1)//3)+1
QuarterOfMonth(month) == ((month - 1) \div 3) + 1

IsLeap(y) == (y % 4 = 0 /\ y % 100 # 0) \/ y % 400 = 0
DaysInMonth(ym) ==
    LET m == MonthOf(ym)
    IN  IF m = 2 THEN (IF IsLeap(YearOf(ym)) THEN 29 ELSE 28)
        ELSE IF m \in {4, 6, 9, 11} THEN 30 ELSE 31

Timestamp(year, month, day) == [ym |-> YM(year, month), day |-> day, t |-> 0]
\* ts + pd.DateOffset(months=k): the day is clipped to the target month, the time kept
AddMonths(ts, k) ==
    LET ym == ts.ym + k
        dim == DaysInMonth(ym)
    IN  [ym |-> ym, day |-> IF ts.day > dim THEN dim ELSE ts.day, t |-> ts.t]
TsLe(a, b) ==
    \/ a.ym < b.ym
    \/ a.ym = b.ym /\ a.day < b.day
    \/ a.ym = b.ym /\ a.day = b.day /\ a.t <= b.t

\* f"{year}Q{quarter}"
PeriodLabel(year, quarter) == <<year, "Q", quarter>>


-----------------------------------------------------------------------------
(* Small sequence helpers.                                                 *)

SetMin(S) == CHOOSE x \in S : \A y \in S : x <= y

\* the elements of a finite set of integers, ascending
RECURSIVE SortedSeq(_)
SortedSeq(S) ==
    IF S = {} THEN <<>>
    ELSE LET m == SetMin(S) IN <<m>> \o SortedSeq(S \ {m})

Last(s) == s[Len(s)]

-----------------------------------------------------------------------------
(* RevenueForecaster: the historical series builder.                       *)

\* the column names the model's tables use, classified as the substring
\* tests of _extract_historical_revenue classify them
IsTcvCol(col) == col \in {"TCV_USD"}             \* 'tcv' and 'usd' in col.lower()
IsIyrCol(col) == col \in {"IYR"}                 \* 'iyr' in col.lower()
IsMarginCol(col) == col \in {"Margin_USD"}       \* 'margin' and 'usd'
IsDateCol(col) == col \in {"close_date", "reporting_period"}

\* cells of a date column: a parseable string, an unparseable one, and what
\* pd.to_datetime(errors='coerce') makes of them
DateStr(year, month, day) == [k |-> "str", ym |-> YM(year, month), day |-> day]
BadDate == [k |-> "bad", ym |-> 0, day |-> 0]
NaT == [k |-> "NaT", ym |-> 0, day |-> 0]
ToDatetime(cell) ==
    IF cell.k = "str" THEN [k |-> "ts", ym |-> cell.ym, day |-> cell.day]
    ELSE IF cell.k = "bad" THEN NaT
    ELSE cell

\* the revenue columns in order of preference: TCV, then IYR, then margin
RevenueColumns(df) ==
    SelectSeq(df.columns, IsTcvCol) \o SelectSeq(df.columns, IsIyrCol)
        \o SelectSeq(df.columns, IsMarginCol)
DateColumns(df) == SelectSeq(df.columns, IsDateCol)

\* df[col].sum()
RECURSIVE ColumnSum(_, _)
ColumnSum(rows, col) ==
    IF rows = <<>> THEN 0 ELSE rows[1][col] + ColumnSum(Tail(rows), col)

\* df[date_col] = pd.to_datetime(df[date_col], errors='coerce'): in place
ConvertDates(df, date_col) ==
    [df EXCEPT !.rows =
        [i \in 1..Len(df.rows) |->
            [df.rows[i] EXCEPT ![date_col] = ToDatetime(df.rows[i][date_col])]]]

\* df.groupby(df[date_col].dt.to_period('M'))[revenue_col].sum(): the months
\* that occur (NaT rows are dropped), ascending, each with its sum
MonthsOf(df, date_col) ==
    {df.rows[i][date_col].ym : i \in {j \in 1..Len(df.rows) : df.rows[j][date_col].k = "ts"}}
MonthSum(df, date_col, revenue_col, ym) ==
    ColumnSum(SelectSeq(df.rows,
                  LAMBDA r : r[date_col].k = "ts" /\ r[date_col].ym = ym),
              revenue_col)

HistoricalPoint(date, revenue) ==
    [date |-> date,
     period |-> PeriodLabel(YearOf(date.ym), QuarterOfMonth(MonthOf(date.ym))),
     revenue |-> revenue,
     quarter |-> QuarterOfMonth(MonthOf(date.ym)),
     year |-> YearOf(date.ym)]

\* the loop over monthly_revenue.iterrows(): one point per month bucket
DatedSeries(df, date_col, revenue_col) ==
    LET months == SortedSeq(MonthsOf(df, date_col))
    IN  [i \in 1..Len(months) |->
            HistoricalPoint(Timestamp(YearOf(months[i]), MonthOf(months[i]), 1),
                            RInt(MonthSum(df, date_col, revenue_col, months[i])))]

\* no date column: the total spread evenly over the 24 months that end now
UndatedSeries(df, revenue_col, now) ==
    LET avg_monthly == R(ColumnSum(df.rows, revenue_col), 24)
        base_date == AddMonths(now, -23)
    IN  [i \in 1..24 |-> HistoricalPoint(AddMonths(base_date, i - 1), avg_monthly)]

\* np.random.normal(1.0, 0.05), the i-th draw from generator state seed. The
\* draw has full support, so base_revenue * growth_factor * seasonal_factor *
\* random_factor ranges over the reals: the operator gives the product.
SampleDraw(seed, i) == R(9 + ((seed + i) % 3), 1)

\* _create_sample_data: 24 month ends from 2022-01, each with a random revenue
CreateSampleData(seed) ==
    [i \in 1..24 |->
        LET ym == YM(2022, 1) + (i - 1)
        IN  HistoricalPoint([ym |-> ym, day |-> DaysInMonth(ym), t |-> 0],
                            SampleDraw(seed, i - 1))]

\* _extract_historical_revenue: the series it returns
ExtractHistoricalRevenue(df, now, seed) ==
    LET revenue_columns == RevenueColumns(df)
        date_columns == DateColumns(df)
    IN  IF revenue_columns = <<>> THEN CreateSampleData(seed)
        ELSE LET historical_revenues ==
                     IF date_columns # <<>>
                     THEN DatedSeries(ConvertDates(df, date_columns[1]),
                                      date_columns[1], revenue_columns[1])
                     ELSE UndatedSeries(df, revenue_columns[1], now)
             IN  IF historical_revenues # <<>> THEN historical_revenues
                 ELSE CreateSampleData(seed)

\* the caller's table after _extract_historical_revenue ran on it
TableAfterExtract(df) ==
    IF ~df.none /\ Len(df.rows) > 0 /\ RevenueColumns(df) # <<>> /\ DateColumns(df) # <<>>
    THEN ConvertDates(df, DateColumns(df)[1])
    ELSE df

\* whether the constructor consumed random draws (it called _create_sample_data)
UsesSampleData(df) ==
    \/ df.none
    \/ Len(df.rows) = 0
    \/ RevenueColumns(df) = <<>>
    \/ /\ DateColumns(df) # <<>>
       /\ MonthsOf(ConvertDates(df, DateColumns(df)[1]), DateColumns(df)[1]) = {}

\* RevenueForecaster.__init__: self.historical_data (a table with none set
\* stands for historical_data=None)
BuildHistoricalData(df, now, seed) ==
    IF ~df.none /\ Len(df.rows) > 0
    THEN ExtractHistoricalRevenue(df, now, seed)
    ELSE CreateSampleData(seed)


-----------------------------------------------------------------------------
(* RevenueForecaster: the scenario projector.                              *)

\* assumptions.get(key, default) on a dict
Get(a, key, default) == IF key \in DOMAIN a THEN a[key] ELSE default

\* a decay that goes on below 0.3
NewCustomerDecay_NoFloor(period_index) ==
    RSub(One, RMul(RInt(period_index), R(1, 10)))

\* new_customer_decay = max(0.3, 1 - (period_index * 0.1))
NewCustomerDecay(period_index) ==
    RMax(R(3, 10), RSub(One, RMul(RInt(period_index), R(1, 10))))

\* _calculate_revenue_for_period, the product before the floor
RawRevenue(previous_revenue, a, quarter, period_index) ==
    LET growth_factor == RAdd(One, R(Get(a, "growth_rate", 5), 100))
        seasonal_base == R(Get(a, "seasonal_adjustment", 0), 100)
        seasonal_factor ==
            IF quarter = 4 THEN RAdd(One, seasonal_base)
            ELSE IF quarter = 1 THEN RSub(One, seasonal_base)
            ELSE RAdd(One, RMul(seasonal_base, R(3, 10)))
        market_factor == RAdd(One, R(Get(a, "market_share", 0), 100))
        new_customer_decay == NewCustomerDecay(period_index)
        new_customer_factor ==
            RAdd(One, RMul(R(Get(a, "new_customer_growth", 0), 100), new_customer_decay))
        existing_customer_factor ==
            RAdd(One, R(Get(a, "existing_customer_growth", 0), 100))
    IN  RMul(RMul(RMul(RMul(RMul(previous_revenue, growth_factor), seasonal_factor),
                       market_factor), new_customer_factor),
             existing_customer_factor)

\* a _calculate_revenue_for_period that returns the product as it is
CalculateRevenueForPeriod_Unfloored(previous_revenue, a, quarter, period_index) ==
    RawRevenue(previous_revenue, a, quarter, period_index)

\* _calculate_revenue_for_period: max(revenue, 0)
CalculateRevenueForPeriod(previous_revenue, a, quarter, period_index) ==
    RMax(RawRevenue(previous_revenue, a, quarter, period_index), Zero)

ForecastPoint(date, revenue, scenario) ==
    [date |-> date,
     period |-> PeriodLabel(YearOf(date.ym), QuarterOfMonth(MonthOf(date.ym))),
     revenue |-> revenue,
     quarter |-> QuarterOfMonth(MonthOf(date.ym)),
     year |-> YearOf(date.ym),
     scenario |-> scenario,
     is_forecast |-> TRUE]

\* the loop of forecast_revenue: the points of periods i..periods, last_revenue
\* being the revenue of period i-1
RECURSIVE ForecastFrom(_, _, _, _, _, _)
ForecastFrom(hist, a, periods, scenario, i, last_revenue) ==
    IF i > periods THEN <<>>
    ELSE LET forecast_date == AddMonths(Last(hist).date, 3 * i)
             quarter == QuarterOfMonth(MonthOf(forecast_date.ym))
             revenue == CalculateRevenueForPeriod(last_revenue, a, quarter, i)
         IN  <<ForecastPoint(forecast_date, revenue, scenario)>>
                 \o ForecastFrom(hist, a, periods, scenario, i + 1, revenue)

\* the first quarter end on or after a month
QuarterEndMonth(ym) == ym + ((2 - (ym % 3)) % 3)

\* _create_empty_forecast: zero revenue at the quarter ends from now on
CreateEmptyForecast(periods, now) ==
    [i \in 1..periods |->
        LET ym == QuarterEndMonth(now.ym) + 3 * (i - 1)
        IN  ForecastPoint([ym |-> ym, day |-> DaysInMonth(ym), t |-> now.t],
                          Zero, "Empty")]

\* a forecast_revenue that counts its quarters from the time of the call
ForecastRevenue_AnchoredOnNow(hist, a, periods, scenario, now) ==
    ForecastFrom(<<[date |-> now]>>, a, periods, scenario, 1, Last(hist).revenue)

\* forecast_revenue
ForecastRevenue(hist, a, periods, scenario, now) ==
    IF Len(hist) = 0 THEN CreateEmptyForecast(periods, now)
    ELSE ForecastFrom(hist, a, periods, scenario, 1, Last(hist).revenue)


-----------------------------------------------------------------------------
(* Inputs of the forecaster runs.                                          *)

DatedColumns == <<"client", "close_date", "TCV_USD">>
DatedRow(client, date, tcv) == [client |-> client, close_date |-> date, TCV_USD |-> tcv]
Table(columns, rows) == [none |-> FALSE, columns |-> columns, rows |-> rows]

\* historical_data=None
NoneTable == [none |-> TRUE, columns |-> <<>>, rows |-> <<>>]
EmptyTable == Table(DatedColumns, <<>>)
\* one row per quarter of 2023: revenues 100, 102, 98, 110
QuarterlyTable ==
    Table(DatedColumns,
          <<DatedRow("a", DateStr(2023, 1, 15), 100), DatedRow("b", DateStr(2023, 4, 10), 102),
            DatedRow("a", DateStr(2023, 7, 20), 98), DatedRow("c", DateStr(2023, 10, 5), 110)>>)
\* unsorted rows, two in one month, one unparseable date, a negative last month
UnsortedTable ==
    Table(DatedColumns,
          <<DatedRow("a", DateStr(2023, 12, 1), -30), DatedRow("b", DateStr(2023, 11, 3), 40),
            DatedRow("c", BadDate, 7), DatedRow("a", DateStr(2023, 11, 20), 5)>>)
BadDatesTable ==
    Table(DatedColumns, <<DatedRow("a", BadDate, 50), DatedRow("b", BadDate, 60)>>)
UndatedTable ==
    Table(<<"client", "Margin_USD", "IYR">>,
          <<[client |-> "a", Margin_USD |-> 1, IYR |-> 240],
            [client |-> "b", Margin_USD |-> 2, IYR |-> 2400]>>)
NoRevenueTable ==
    Table(<<"client", "close_date">>,
          <<[client |-> "a", close_date |-> DateStr(2023, 5, 2)]>>)

InputTables ==
    {NoneTable, EmptyTable, QuarterlyTable, UnsortedTable, BadDatesTable,
     UndatedTable, NoRevenueTable}

Assume(g, s, m, n, e) ==
    [growth_rate |-> g, seasonal_adjustment |-> s, market_share |-> m,
     new_customer_growth |-> n, existing_customer_growth |-> e]

\* assumption dicts whose factors keep small numerators over a long horizon
CoarseAssumptions ==
    {Assume(0, 0, 0, 0, 0), Assume(-100, 0, 0, 0, 0), Assume(-200, 0, 0, 0, 0),
     Assume(0, 100, 0, 0, 0), Assume(0, -100, 0, 0, 0), Assume(0, 200, 0, 0, 0),
     Assume(0, 0, 0, -100, 0), Assume(0, 0, 0, 100, 0), Assume(0, 0, 0, -200, 0),
     Assume(0, 0, -50, 0, 100), Assume(100, 0, 0, -100, 0), Assume(0, 0, -200, 0, 0),
     Assume(0, 0, 0, 0, -300)}
\* assumption dicts with everyday percentages, and dicts that leave keys out
FineAssumptions ==
    {Assume(5, 0, 0, 0, 0), Assume(25, 20, 0, 0, 0), Assume(0, 0, 0, 50, 0),
     Assume(10, 0, 50, 0, -50), Assume(-150, 0, 0, 0, 0),
     [seasonal_adjustment |-> 100], [growth_rate |-> 10, new_customer_growth |-> 20],
     [market_share |-> 0 - 150, existing_customer_growth |-> 25],
     [unused_key |-> 1]}

Nows ==
    {[ym |-> YM(2024, 3), day |-> 31, t |-> 1], [ym |-> YM(2024, 5), day |-> 15, t |-> 2]}
FirstNow == [ym |-> YM(2024, 3), day |-> 31, t |-> 1]

Inputs ==
    {[table |-> tb, assumptions |-> a, periods |-> p, scenario |-> "Base Case"] :
        tb \in InputTables, a \in CoarseAssumptions, p \in 1..MaxPeriods}
    \cup
    {[table |-> tb, assumptions |-> a, periods |-> p, scenario |-> "Base Case"] :
        tb \in InputTables, a \in FineAssumptions, p \in 1..FinePeriods}

-----------------------------------------------------------------------------
(* The forecaster's runs: RevenueForecaster(table), then forecast_revenue, *)
(* and the same once more on the same input.                               *)

ForecasterInit ==
    /\ input \in Inputs
    /\ table = input.table
    /\ historical_data = <<>>
    /\ forecast_data = <<>>
    /\ pc = "new"
    /\ run = 1
    /\ prev_forecast = <<>>
    /\ clock = FirstNow
    /\ rng \in 0..MaxSeed

\* the generator's state after the 24 draws of _create_sample_data
NextRng(seed) == (seed + 24) % (MaxSeed + 1)

\* RevenueForecaster(historical_data): __init__, at some time now
Construct ==
    /\ pc = "new"
    /\ \E now \in Nows :
        /\ TsLe(clock, now)
        /\ clock' = now
        /\ historical_data' = BuildHistoricalData(table, now, rng)
    /\ table' = TableAfterExtract(table)
    /\ rng' = IF UsesSampleData(table) THEN NextRng(rng) ELSE rng
    /\ pc' = "built"
    /\ UNCHANGED <<input, forecast_data, run, prev_forecast>>
    /\ UNCHANGED <<engine_vars, catalog_vars, store_vars, scorer_vars, persp_vars, reader_vars>>

\* forecaster.forecast_revenue(assumptions, periods, scenario_name)
Forecast ==
    /\ pc = "built"
    /\ forecast_data' = ForecastRevenue(historical_data, input.assumptions,
                                        input.periods, input.scenario, clock)
    /\ pc' = "done"
    /\ UNCHANGED <<input, table, historical_data, run, prev_forecast, clock, rng>>
    /\ UNCHANGED <<engine_vars, catalog_vars, store_vars, scorer_vars, persp_vars, reader_vars>>

\* the caller starts over with an equal input: a fresh table with the same
\* content and the generator in whatever state the process has by then
SecondRun ==
    /\ pc = "done"
    /\ run = 1
    /\ run' = 2
    /\ prev_forecast' = forecast_data
    /\ table' = input.table
    /\ historical_data' = <<>>
    /\ forecast_data' = <<>>
    /\ pc' = "new"
    /\ rng' \in 0..MaxSeed
    /\ UNCHANGED <<input, clock>>
    /\ UNCHANGED <<engine_vars, catalog_vars, store_vars, scorer_vars, persp_vars, reader_vars>>


-----------------------------------------------------------------------------
(* Floats that may be infinite or undefined: a rational, or inf (1/0),     *)
(* -inf (-1/0), nan (0/0), as float division by zero gives in pandas.      *)

PosInf == [n |-> 1, d |-> 0]
NegInf == [n |-> -1, d |-> 0]
NaN == [n |-> 0, d |-> 0]
IsFinite(x) == x.d # 0
IsNaN(x) == x.d = 0 /\ x.n = 0

\* a / b of two finite floats, as a pandas Series divides
XDiv(a, b) ==
    IF b.n # 0 THEN R(a.n * b.d, a.d * b.n)
    ELSE IF a.n > 0 THEN PosInf
    ELSE IF a.n < 0 THEN NegInf
    ELSE NaN
\* x * k for a finite k > 0
XScale(x, k) == IF IsFinite(x) THEN RMul(x, k) ELSE x
\* x.abs()
XAbs(x) == IF IsFinite(x) THEN RAbs(x) ELSE [n |-> Abs(x.n), d |-> 0]
\* a > b and a <= b: comparisons with nan are False
XGt(a, b) ==
    IF IsNaN(a) \/ IsNaN(b) THEN FALSE
    ELSE IF IsFinite(a) /\ IsFinite(b) THEN RLt(b, a)
    ELSE IF IsFinite(a) THEN b = NegInf
    ELSE IF IsFinite(b) THEN a = PosInf
    ELSE a = PosInf /\ b = NegInf
XLe(a, b) ==
    IF IsNaN(a) \/ IsNaN(b) THEN FALSE
    ELSE ~XGt(a, b)
\* a + b
XAdd(a, b) ==
    IF IsFinite(a) /\ IsFinite(b) THEN RAdd(a, b)
    ELSE IF IsNaN(a) \/ IsNaN(b) THEN NaN
    ELSE IF IsFinite(a) THEN b
    ELSE IF IsFinite(b) THEN a
    ELSE IF a = b THEN a
    ELSE NaN

\* Series.sum() and Series.mean() of a column of records (skipna: nan cells
\* are left out; a mean of no cells is nan)
RECURSIVE SeriesSum(_, _)
SeriesSum(recs, col) ==
    IF recs = <<>> THEN Zero
    ELSE IF IsNaN(recs[1][col]) THEN SeriesSum(Tail(recs), col)
    ELSE XAdd(recs[1][col], SeriesSum(Tail(recs), col))
SeriesMean(recs, col) ==
    LET kept == SelectSeq(recs, LAMBDA r : ~IsNaN(r[col]))
        total == SeriesSum(kept, col)
    IN  IF kept = <<>> THEN NaN
        ELSE IF IsFinite(total) THEN RMul(total, R(1, Len(kept)))
        ELSE total


-----------------------------------------------------------------------------
(* MasterAssumptionsEngine: the assumptions record.                        *)

\* ForecastAssumptions(): the dataclass defaults
DefaultAssumptions ==
    [base_growth_rate |-> R(5, 100),
     seasonal_factors |-> "None",
     market_risk |-> R(10, 100),
     execution_risk |-> R(5, 100),
     competitive_risk |-> R(8, 100),
     finance_conservatism |-> R(85, 100),
     finance_probability_threshold |-> R(75, 100),
     finance_risk_buffer |-> R(10, 100),
     sales_optimism |-> R(115, 100),
     sales_pipeline_confidence |-> R(90, 100),
     sales_acceleration_factor |-> R(105, 100),
     reconciliation_method |-> "weighted_average",
     finance_weight |-> R(6, 10)]

\* update_assumptions(**kwargs): every keyword that names a field is set,
\* the others are skipped; no value is checked
UpdateAssumptions(a, kwargs) ==
    [f \in DOMAIN a |-> IF f \in DOMAIN kwargs THEN kwargs[f] ELSE a[f]]

-----------------------------------------------------------------------------
(* MasterAssumptionsEngine: reconciliation.                                *)

\* f"{year}-{month:02d}" and the 'N/A' of an empty analysis
PeriodText(year, month) == [text |-> "year-month", year |-> year, month |-> month]
PeriodNA == [text |-> "N/A", year |-> 0, month |-> 0]

EmptyVarianceAnalysis ==
    [total_variance |-> Zero,
     avg_variance_pct |-> Zero,
     max_variance_month |-> [period |-> PeriodNA, variance |-> Zero, variance_pct |-> Zero],
     high_variance_months |-> 0,
     medium_variance_months |-> 0,
     variance_trend |-> "stable"]

\* _empty_reconciliation_result (and the equal literal of the first check)
EmptyReconciliationResult ==
    [reconciliation |-> <<>>,
     variance_analysis |-> EmptyVarianceAnalysis,
     finance_total |-> Zero,
     sales_total |-> Zero,
     reconciled_total |-> Zero]

RequiredCols == {"year", "month", "revenue"}

\* DataFrame.empty: no rows or no columns
IsEmptyFrame(df) == Len(df.rows) = 0 \/ df.columns = {}

\* df.groupby(['year', 'month'])['revenue'].sum().reset_index(): one row per
\* period that occurs, ascending by (year, month), with the sum of its rows
RECURSIVE RevenueSum(_)
RevenueSum(rows) ==
    IF rows = <<>> THEN 0 ELSE rows[1].revenue + RevenueSum(Tail(rows))
PeriodKeys(df) == {YM(df.rows[i].year, df.rows[i].month) : i \in 1..Len(df.rows)}
\* a groupby that keeps the first row of each period instead of the sum
GroupBySum_First(df) ==
    LET keys == SortedSeq(PeriodKeys(df))
    IN  [i \in 1..Len(keys) |->
            [year |-> YearOf(keys[i]),
             month |-> MonthOf(keys[i]),
             revenue |-> RInt(SelectSeq(df.rows,
                            LAMBDA r : YM(r.year, r.month) = keys[i])[1].revenue)]]

\* the aggregation of reconcile_forecasts: a row per period, ascending
GroupBySum(df) ==
    LET keys == SortedSeq(PeriodKeys(df))
    IN  [i \in 1..Len(keys) |->
            [year |-> YearOf(keys[i]),
             month |-> MonthOf(keys[i]),
             revenue |-> RInt(RevenueSum(SelectSeq(df.rows,
                            LAMBDA r : YM(r.year, r.month) = keys[i])))]]

\* a reconciled value with the two priority branches exchanged
ReconciledRevenue_Swapped(a, revenue_finance, revenue_sales) ==
    IF a.reconciliation_method = "finance_priority" THEN revenue_sales
    ELSE IF a.reconciliation_method = "sales_priority" THEN revenue_finance
    ELSE RAdd(RMul(revenue_finance, a.finance_weight),
              RMul(revenue_sales, RSub(One, a.finance_weight)))

\* the reconciled value of one period under the engine's method
ReconciledRevenue(a, revenue_finance, revenue_sales) ==
    IF a.reconciliation_method = "finance_priority" THEN revenue_finance
    ELSE IF a.reconciliation_method = "sales_priority" THEN revenue_sales
    ELSE RAdd(RMul(revenue_finance, a.finance_weight),
              RMul(revenue_sales, RSub(One, a.finance_weight)))

\* reconciliation['variance_pct']
VariancePct(variance_abs, revenue_finance) ==
    XScale(XDiv(variance_abs, revenue_finance), RInt(100))

\* finance_agg.merge(sales_agg, on=['year', 'month']) with the variance and
\* reconciled columns: an inner join in the order of the finance periods
Merge(a, finance_agg, sales_agg) ==
    LET joined ==
            SelectSeq(finance_agg,
                LAMBDA f : \E j \in 1..Len(sales_agg) :
                    sales_agg[j].year = f.year /\ sales_agg[j].month = f.month)
        SalesOf(f) ==
            sales_agg[CHOOSE j \in 1..Len(sales_agg) :
                sales_agg[j].year = f.year /\ sales_agg[j].month = f.month]
    IN  [i \in 1..Len(joined) |->
            LET f == joined[i]
                sl == SalesOf(f)
                variance_abs == RSub(sl.revenue, f.revenue)
            IN  [year |-> f.year,
                 month |-> f.month,
                 revenue_finance |-> f.revenue,
                 perspective_finance |-> "Finance",
                 revenue_sales |-> sl.revenue,
                 perspective_sales |-> "Sales",
                 variance_abs |-> variance_abs,
                 variance_pct |-> VariancePct(variance_abs, f.revenue),
                 reconciled_revenue |-> ReconciledRevenue(a, f.revenue, sl.revenue)]]

\* reconciliation['variance_abs'].abs().idxmax(): the first row of the largest
RECURSIVE IdxMaxAbs(_, _, _)
IdxMaxAbs(recs, i, best) ==
    IF i > Len(recs) THEN best
    ELSE IF RLt(RAbs(recs[best].variance_abs), RAbs(recs[i].variance_abs))
         THEN IdxMaxAbs(recs, i + 1, i)
         ELSE IdxMaxAbs(recs, i + 1, best)

\* a high count that takes in the records at exactly 20 %
HighVarianceMonths_AtLeast(recs) ==
    Cardinality({i \in 1..Len(recs) :
        \/ XGt(XAbs(recs[i].variance_pct), RInt(20))
        \/ XAbs(recs[i].variance_pct) = RInt(20)})

\* the counts of the months of high and of medium variance
HighVarianceMonths(recs) ==
    Cardinality({i \in 1..Len(recs) : XGt(XAbs(recs[i].variance_pct), RInt(20))})
MediumVarianceMonths(recs) ==
    Cardinality({i \in 1..Len(recs) :
        /\ XGt(XAbs(recs[i].variance_pct), RInt(10))
        /\ XLe(XAbs(recs[i].variance_pct), RInt(20))})

\* _analyze_forecast_variance
AnalyzeForecastVariance(recs) ==
    IF recs = <<>> THEN EmptyVarianceAnalysis
    ELSE LET m == recs[IdxMaxAbs(recs, 1, 1)]
         IN  [total_variance |-> SeriesSum(recs, "variance_abs"),
              avg_variance_pct |-> SeriesMean(recs, "variance_pct"),
              max_variance_month |->
                  [period |-> PeriodText(m.year, m.month),
                   variance |-> m.variance_abs,
                   variance_pct |-> m.variance_pct],
              high_variance_months |-> HighVarianceMonths(recs),
              medium_variance_months |-> MediumVarianceMonths(recs),
              variance_trend |->
                  IF Len(recs) > 1
                  THEN (IF XGt(Last(recs).variance_pct, recs[1].variance_pct)
                        THEN "increasing" ELSE "decreasing")
                  ELSE "stable"]

\* reconcile_forecasts from the aggregation on, without the check of an
\* empty join
ReconcileAggregated_NoJoinCheck(a, finance_agg, sales_agg) ==
    LET reconciliation == Merge(a, finance_agg, sales_agg)
    IN  IF finance_agg = <<>> \/ sales_agg = <<>> THEN EmptyReconciliationResult
        ELSE [reconciliation |-> reconciliation,
              variance_analysis |-> AnalyzeForecastVariance(reconciliation),
              finance_total |-> SeriesSum(finance_agg, "revenue"),
              sales_total |-> SeriesSum(sales_agg, "revenue"),
              reconciled_total |-> SeriesSum(reconciliation, "reconciled_revenue")]

\* reconcile_forecasts from the aggregation on: the join, the variance and
\* reconciled columns, the analysis and the totals
ReconcileAggregated(a, finance_agg, sales_agg) ==
    LET reconciliation == Merge(a, finance_agg, sales_agg)
    IN  IF finance_agg = <<>> \/ sales_agg = <<>> THEN EmptyReconciliationResult
        ELSE IF reconciliation = <<>> THEN EmptyReconciliationResult
        ELSE [reconciliation |-> reconciliation,
              variance_analysis |-> AnalyzeForecastVariance(reconciliation),
              finance_total |-> SeriesSum(finance_agg, "revenue"),
              sales_total |-> SeriesSum(sales_agg, "revenue"),
              reconciled_total |-> SeriesSum(reconciliation, "reconciled_revenue")]

\* reconcile_forecasts: the value it returns (no path of it raises on frames
\* of numbers)
ReconcileForecasts(a, finance, sales) ==
    IF IsEmptyFrame(finance) \/ IsEmptyFrame(sales) THEN EmptyReconciliationResult
    ELSE IF ~(RequiredCols \subseteq finance.columns) THEN EmptyReconciliationResult
    ELSE IF ~(RequiredCols \subseteq sales.columns) THEN EmptyReconciliationResult
    ELSE ReconcileAggregated(a, GroupBySum(finance), GroupBySum(sales))

-----------------------------------------------------------------------------
(* Inputs of the engine's calls.                                           *)

ForecastRow(year, month, revenue) == [year |-> year, month |-> month, revenue |-> revenue]
Frame(columns, rows) == [columns |-> columns, rows |-> rows]

FinanceRows == {ForecastRow(2024, m, v) : m \in {1, 2}, v \in {0, 100}}
SalesRows == {ForecastRow(2024, m, v) : m \in {1, 2}, v \in {110, 120, 130}}

\* the row sequences of at most MaxRows rows, one per multiset of rows (the
\* rows ascending by period and revenue)
RowRank(r) == YM(r.year, r.month) * 1000 + r.revenue
RowSeqs(Rows) ==
    UNION {{sq \in [1..k -> Rows] :
                \A i \in 1..(k - 1) : RowRank(sq[i]) <= RowRank(sq[i + 1])} :
           k \in 0..MaxRows}

FinanceFrames ==
    {Frame(RequiredCols, rows) : rows \in RowSeqs(FinanceRows)}
    \cup {\* rows out of period order, a period of 2025, a negative revenue
          Frame(RequiredCols \cup {"perspective"},
                <<ForecastRow(2025, 1, 100), ForecastRow(2024, 2, 100),
                  ForecastRow(2024, 1, -50), ForecastRow(2024, 2, 100)>>),
          \* no revenue column
          Frame({"year", "month"}, <<[year |-> 2024, month |-> 1]>>),
          \* columns and no rows
          Frame(RequiredCols, <<>>)}
SalesFrames ==
    {Frame(RequiredCols, rows) : rows \in RowSeqs(SalesRows)}
    \cup {Frame(RequiredCols,
                <<ForecastRow(2024, 2, 130), ForecastRow(2024, 1, 10),
                  ForecastRow(2024, 1, -60)>>),
          \* no month column
          Frame({"year", "revenue"}, <<[year |-> 2024, revenue |-> 130]>>),
          \* no columns at all
          Frame({}, <<>>)}

KnownMethods == {"finance_priority", "sales_priority", "weighted_average"}

\* keyword arguments of update_assumptions calls
UpdateKwargs ==
    {[reconciliation_method |-> m] : m \in KnownMethods \cup {"median"}}
    \cup {[finance_weight |-> w] : w \in {R(6, 10), R(1, 1), R(3, 2)}}
    \cup {[reconciliation_method |-> "weighted_average", finance_weight |-> R(0, 1)],
          [not_a_field |-> 1]}

-----------------------------------------------------------------------------
(* The engine's calls.                                                     *)

EngineInit ==
    /\ assumptions = DefaultAssumptions
    /\ finance_forecast \in FinanceFrames
    /\ sales_forecast \in SalesFrames
    /\ recon_out = <<>>

\* engine.update_assumptions(**kwargs); a result on hand was computed under
\* the assumptions before the call and is let go
CallUpdateAssumptions ==
    /\ \E kwargs \in UpdateKwargs :
          assumptions' = UpdateAssumptions(assumptions, kwargs)
    /\ recon_out' = <<>>
    /\ UNCHANGED <<finance_forecast, sales_forecast>>
    /\ UNCHANGED <<forecaster_vars, catalog_vars, store_vars, scorer_vars, persp_vars, reader_vars>>

\* engine.reconcile_forecasts(finance_forecast, sales_forecast)
CallReconcileForecasts ==
    /\ recon_out' = <<ReconcileForecasts(assumptions, finance_forecast, sales_forecast)>>
    /\ UNCHANGED <<assumptions, finance_forecast, sales_forecast>>
    /\ UNCHANGED <<forecaster_vars, catalog_vars, store_vars, scorer_vars, persp_vars, reader_vars>>

-----------------------------------------------------------------------------
(* MasterAssumptionsEngine: the finance and sales perspectives.            *)

\* 'existing' in str(client).lower(), over the client cells of the project
\* tables tried: it holds for the cells listed here
ContainsExisting(client) == client \in {"Existing Client A", "PRE-EXISTING PARTNER"}

\* the score of one row of projects_df in _calculate_project_confidence
ProjectScore(project) ==
    LET s0 == R(7, 10)
        s1 == IF project.status = "Active" THEN RAdd(s0, R(2, 10))
              ELSE IF project.status = "Pipeline" THEN RSub(s0, R(1, 10))
              ELSE s0
        s2 == IF ContainsExisting(project.client) THEN RAdd(s1, R(15, 100)) ELSE s1
        s3 == IF project.offering \in {"Core Services", "Established Products"}
              THEN RAdd(s2, R(1, 10)) ELSE s2
    IN  RMax(Zero, RMin(One, s3))

\* _calculate_project_confidence: a dict project_id -> score filled row by
\* row, so the last row of a project_id is the one that stays
CalculateProjectConfidence(projects_df) ==
    LET ids == {projects_df[i].project_id : i \in 1..Len(projects_df)}
        LastRow(id) ==
            projects_df[CHOOSE i \in 1..Len(projects_df) :
                /\ projects_df[i].project_id = id
                /\ \A j \in 1..Len(projects_df) :
                      projects_df[j].project_id = id => j <= i]
    IN  [id \in ids |-> ProjectScore(LastRow(id))]

\* forecast['revenue'] *= k
TimesRevenue(rows, k) ==
    [i \in 1..Len(rows) |-> [rows[i] EXCEPT !.revenue = RMul(@, k)]]

\* forecast[forecast['project_id'].isin(projects)]
RowsOfProjects(rows, projects) ==
    SelectSeq(rows, LAMBDA r : r.project_id \in projects)

\* the three columns that a perspective adds
Tagged(rows, perspective, confidence_level, risk_adjustment) ==
    [i \in 1..Len(rows) |->
        [project_id |-> rows[i].project_id, year |-> rows[i].year,
         month |-> rows[i].month, revenue |-> rows[i].revenue,
         perspective |-> perspective, confidence_level |-> confidence_level,
         risk_adjustment |-> risk_adjustment]]

\* a finance perspective that leaves the risk buffer out
GenerateFinancePerspectiveForecast_NoBuffer(a, base_data, projects_df) ==
    LET scaled == TimesRevenue(base_data, a.finance_conservatism)
        confidence_scores == CalculateProjectConfidence(projects_df)
        high_confidence_projects ==
            {pid \in DOMAIN confidence_scores :
                RLe(a.finance_probability_threshold, confidence_scores[pid])}
    IN  Tagged(RowsOfProjects(scaled, high_confidence_projects),
               "Finance", "High", "Conservative")

\* generate_finance_perspective_forecast
GenerateFinancePerspectiveForecast(a, base_data, projects_df) ==
    LET conservative == TimesRevenue(base_data, a.finance_conservatism)
        buffered == TimesRevenue(conservative, RSub(One, a.finance_risk_buffer))
        confidence_scores == CalculateProjectConfidence(projects_df)
        high_confidence_projects ==
            {pid \in DOMAIN confidence_scores :
                RLe(a.finance_probability_threshold, confidence_scores[pid])}
    IN  Tagged(RowsOfProjects(buffered, high_confidence_projects),
               "Finance", "High", "Conservative")

\* generate_sales_perspective_forecast
GenerateSalesPerspectiveForecast(a, base_data, projects_df) ==
    LET optimistic == TimesRevenue(base_data, a.sales_optimism)
        confident == TimesRevenue(optimistic, a.sales_pipeline_confidence)
        accelerated == TimesRevenue(confident, a.sales_acceleration_factor)
        confidence_scores == CalculateProjectConfidence(projects_df)
        included_projects ==
            {pid \in DOMAIN confidence_scores :
                RLe(R(1, 2), confidence_scores[pid])}
    IN  Tagged(RowsOfProjects(accelerated, included_projects),
               "Sales", "Medium-High", "Optimistic")

\* ---- inputs of the perspective calls

BaseRow(project_id, year, month, revenue) ==
    [project_id |-> project_id, year |-> year, month |-> month,
     revenue |-> RInt(revenue)]
Project(project_id, status, client, offering) ==
    [project_id |-> project_id, status |-> status, client |-> client,
     offering |-> offering]

\* base_data: no rows; a row per project; projects with several periods, a
\* project without metadata (P9), a zero and a negative revenue
BaseTables ==
    {<<>>,
     <<BaseRow("P1", 2024, 1, 100), BaseRow("P2", 2024, 1, 200),
       BaseRow("P3", 2024, 1, 300), BaseRow("P4", 2024, 2, 400)>>,
     <<BaseRow("P2", 2024, 2, 50), BaseRow("P1", 2024, 1, 0),
       BaseRow("P9", 2024, 1, 70), BaseRow("P2", 2024, 1, -20),
       BaseRow("P3", 2024, 3, 10)>>}

\* projects_df: a project of every score between 0.6 and 1
ProjectTables ==
    {<<>>,
     \* 0.9, 0.6, 0.7, 0.75
     <<Project("P1", "Active", "New Client B", "Custom Work"),
       Project("P2", "Pipeline", "New Client B", "Custom Work"),
       Project("P3", "On Hold", "None", "Custom Work"),
       Project("P4", "Pipeline", "PRE-EXISTING PARTNER", "None")>>,
     \* 1 (from 1.15), 0.85, 0.8, 0.7
     <<Project("P1", "Active", "Existing Client A", "Core Services"),
       Project("P2", "Pipeline", "Existing Client A", "Established Products"),
       Project("P3", "None", "New Client B", "Core Services"),
       Project("P4", "Pipeline", "New Client B", "Established Products")>>,
     \* P2 twice: 0.6, then 1 (from 1.05)
     <<Project("P2", "Pipeline", "New Client B", "Custom Work"),
       Project("P3", "Active", "None", "Core Services"),
       Project("P2", "Active", "Existing Client A", "Custom Work")>>}

\* keyword arguments of update_assumptions that bear on the perspectives; the
\* thresholds are ones at which the binary sums of the scores compare as the
\* exact decimals do
PerspectiveKwargs ==
    {[finance_probability_threshold |-> t] :
        t \in {R(1, 2), R(75, 100), R(85, 100), R(95, 100), R(105, 100)}}
    \cup {[finance_conservatism |-> R(1, 1), finance_risk_buffer |-> R(0, 1)],
          [finance_conservatism |-> R(85, 100), finance_risk_buffer |-> R(1, 4)],
          [sales_optimism |-> R(2, 1)],
          [sales_pipeline_confidence |-> R(1, 2), sales_acceleration_factor |-> R(1, 1)]}

\* ---- the perspective calls

PerspectiveInit ==
    /\ assumptions = DefaultAssumptions
    /\ finance_forecast = Frame(RequiredCols, <<>>)
    /\ sales_forecast = Frame(RequiredCols, <<>>)
    /\ recon_out = <<>>
    /\ persp_in \in {[base_data |-> b, projects_df |-> p] :
                        b \in BaseTables, p \in ProjectTables}
    /\ persp_out = <<>>

\* engine.update_assumptions(**kwargs) before a perspective is generated
CallUpdatePerspectiveAssumptions ==
    /\ \E kwargs \in PerspectiveKwargs :
          assumptions' = UpdateAssumptions(assumptions, kwargs)
    /\ persp_out' = <<>>
    /\ UNCHANGED <<finance_forecast, sales_forecast, recon_out, persp_in>>
    /\ UNCHANGED <<forecaster_vars, catalog_vars, store_vars, scorer_vars, reader_vars>>

\* engine.generate_finance_perspective_forecast(base_data, projects_df)
CallGenerateFinancePerspective ==
    /\ persp_out' = <<[call |-> "finance",
                       forecast |-> GenerateFinancePerspectiveForecast(
                           assumptions, persp_in.base_data, persp_in.projects_df)]>>
    /\ UNCHANGED <<engine_vars, persp_in>>
    /\ UNCHANGED <<forecaster_vars, catalog_vars, store_vars, scorer_vars, reader_vars>>

\* engine.generate_sales_perspective_forecast(base_data, projects_df)
CallGenerateSalesPerspective ==
    /\ persp_out' = <<[call |-> "sales",
                       forecast |-> GenerateSalesPerspectiveForecast(
                           assumptions, persp_in.base_data, persp_in.projects_df)]>>
    /\ UNCHANGED <<engine_vars, persp_in>>
    /\ UNCHANGED <<forecaster_vars, catalog_vars, store_vars, scorer_vars, reader_vars>>

-----------------------------------------------------------------------------
(* MasterAssumptionsEngine: the risk factor catalog.                       *)

\* RiskFactor(...): the dataclass; no field is checked
RiskFactor(name, category, impact_type, base_value, min_value, max_value, description, applies_to) ==
    [name |-> name, category |-> category, impact_type |-> impact_type,
     base_value |-> base_value, min_value |-> min_value, max_value |-> max_value,
     description |-> description, applies_to |-> applies_to]

\* _initialize_default_risk_factors(): the six built-in factors, in this order
DefaultRiskFactors ==
    <<RiskFactor("Market Volatility", "market", "multiplier",
                 R(1, 1), R(7, 10), R(13, 10), "market conditions", <<"all">>),
      RiskFactor("Competitive Pressure", "competitive", "multiplier",
                 R(1, 1), R(8, 10), R(11, 10), "competitive dynamics", <<"offering">>),
      RiskFactor("Economic Downturn", "market", "probability",
                 R(15, 100), R(5, 100), R(40, 100), "economic downturn", <<"industry">>),
      RiskFactor("Execution Risk", "operational", "multiplier",
                 R(95, 100), R(80, 100), R(1, 1), "delivery risk", <<"sales_org">>),
      RiskFactor("Currency Fluctuation", "financial", "multiplier",
                 R(1, 1), R(85, 100), R(115, 100), "exchange rates", <<"all">>),
      RiskFactor("Technology Disruption", "market", "additive",
                 R(0, 1), R(-20, 100), R(10, 100), "new technology", <<"offering">>)>>

\* add_custom_risk_factor(risk_factor): appended, whatever its name and values
AddCustomRiskFactor(rfs, risk_factor) == Append(rfs, risk_factor)

\* the position of the first factor called name, 0 when there is none
FirstNamed(rfs, name) ==
    IF \E i \in 1..Len(rfs) : rfs[i].name = name
    THEN SetMin({i \in 1..Len(rfs) : rfs[i].name = name})
    ELSE 0

\* update_risk_factor(name, **kwargs): the first factor with this name gets
\* every keyword that names a field; the loop stops there (break)
UpdateRiskFactor(rfs, name, kwargs) ==
    LET k == FirstNamed(rfs, name)
    IN  [i \in 1..Len(rfs) |->
            IF i = k
            THEN [f \in DOMAIN rfs[i] |->
                     IF f \in DOMAIN kwargs THEN kwargs[f] ELSE rfs[i][f]]
            ELSE rfs[i]]

\* export_assumptions(): five of the assumption fields and the whole catalog
ExportAssumptions(a, rfs) ==
    [forecast_assumptions |->
        [base_growth_rate |-> a.base_growth_rate,
         finance_conservatism |-> a.finance_conservatism,
         sales_optimism |-> a.sales_optimism,
         reconciliation_method |-> a.reconciliation_method,
         finance_weight |-> a.finance_weight],
     risk_factors |-> rfs]

\* import_assumptions(config): the fields named under 'forecast_assumptions'
\* are set, and self.risk_factors becomes the list under 'risk_factors'
ImportAssumptions(a, rfs, config) ==
    [assumptions |->
        IF "forecast_assumptions" \in DOMAIN config
        THEN UpdateAssumptions(a, config.forecast_assumptions)
        ELSE a,
     risk_factors |->
        IF "risk_factors" \in DOMAIN config THEN config.risk_factors ELSE rfs]

\* 'all' in rf.applies_to, dimension in rf.applies_to
IsIn(x, list) == \E i \in 1..Len(list) : list[i] = x

\* get_applicable_risk_factors(dimension, value): value is not looked at
GetApplicableRiskFactors(rfs, dimension, value) ==
    SelectSeq(rfs, LAMBDA rf : IsIn("all", rf.applies_to) \/ IsIn(dimension, rf.applies_to))

\* the applicable_risks of calculate_risk_adjusted_forecast: one extend per
\* item of dimension_filters, or the 'all' factors without filters
RECURSIVE ApplicableRisks(_, _)
ApplicableRisks(rfs, dimension_filters) ==
    IF dimension_filters = <<>>
    THEN <<>>
    ELSE GetApplicableRiskFactors(rfs, Head(dimension_filters).dimension,
                                  Head(dimension_filters).value)
         \o ApplicableRisks(rfs, Tail(dimension_filters))

\* a choice of value that takes min_value in every pessimistic case
RiskValue_PessimisticMin(rf, scenario_type) ==
    IF scenario_type = "optimistic"
    THEN (IF rf.impact_type = "multiplier" THEN rf.min_value ELSE rf.max_value)
    ELSE IF scenario_type = "pessimistic"
    THEN rf.min_value
    ELSE rf.base_value

\* the risk_value of one factor in one scenario
RiskValue(rf, scenario_type) ==
    IF scenario_type = "optimistic"
    THEN (IF rf.impact_type = "multiplier" THEN rf.min_value ELSE rf.max_value)
    ELSE IF scenario_type = "pessimistic"
    THEN (IF rf.impact_type = "multiplier" /\ RLt(rf.max_value, One)
          THEN rf.max_value ELSE rf.min_value)
    ELSE rf.base_value

\* adjusted_forecast['revenue'] *= k
ScaleRevenue(forecast, k) ==
    [forecast EXCEPT !.rows =
        [i \in 1..Len(forecast.rows) |->
            [forecast.rows[i] EXCEPT !.revenue = RMul(@, k)]]]

\* adjusted_forecast['revenue'] += k
ShiftRevenue(forecast, k) ==
    [forecast EXCEPT !.rows =
        [i \in 1..Len(forecast.rows) |->
            [forecast.rows[i] EXCEPT !.revenue = RAdd(@, k)]]]

\* a turn of the loop that treats every factor as an additive one
ApplyRiskFactor_AllAdditive(forecast, rf, scenario_type) ==
    ScaleRevenue(forecast, RAdd(One, RiskValue(rf, scenario_type)))

\* a turn of the loop in which an additive factor is added to the revenue
ApplyRiskFactor_Adds(forecast, rf, scenario_type) ==
    LET risk_value == RiskValue(rf, scenario_type)
    IN  IF rf.impact_type = "multiplier"
        THEN ScaleRevenue(forecast, risk_value)
        ELSE IF rf.impact_type = "additive"
        THEN ShiftRevenue(forecast, RMul(risk_value, RInt(100)))
        ELSE IF rf.impact_type = "probability"
        THEN ScaleRevenue(forecast, RSub(One, RMul(risk_value, R(5, 10))))
        ELSE forecast

\* one turn of the loop of _apply_risk_scenario
ApplyRiskFactor(forecast, rf, scenario_type) ==
    LET risk_value == RiskValue(rf, scenario_type)
    IN  IF rf.impact_type = "multiplier"
        THEN ScaleRevenue(forecast, risk_value)
        ELSE IF rf.impact_type = "additive"
        THEN ScaleRevenue(forecast, RAdd(One, risk_value))
        ELSE IF rf.impact_type = "probability"
        THEN ScaleRevenue(forecast, RSub(One, RMul(risk_value, R(5, 10))))
        ELSE forecast

\* _apply_risk_scenario(forecast, risk_factors, scenario_type), on a copy
RECURSIVE ApplyRiskScenario(_, _, _)
ApplyRiskScenario(forecast, factors, scenario_type) ==
    IF factors = <<>>
    THEN forecast
    ELSE ApplyRiskScenario(ApplyRiskFactor(forecast, Head(factors), scenario_type),
                           Tail(factors), scenario_type)

\* calculate_risk_adjusted_forecast(base_forecast, dimension_filters); the
\* applicable_risks it worked with are kept beside the scenarios
CalculateRiskAdjustedForecast(rfs, base_forecast, dimension_filters) ==
    LET applicable_risks ==
            IF dimension_filters # <<>>
            THEN ApplicableRisks(rfs, dimension_filters)
            ELSE SelectSeq(rfs, LAMBDA rf : IsIn("all", rf.applies_to))
    IN  [base_forecast |-> base_forecast,
         dimension_filters |-> dimension_filters,
         applicable_risks |-> applicable_risks,
         scenarios |->
            [base |-> base_forecast,
             optimistic |-> ApplyRiskScenario(base_forecast, applicable_risks, "optimistic"),
             pessimistic |-> ApplyRiskScenario(base_forecast, applicable_risks, "pessimistic"),
             most_likely |-> ApplyRiskScenario(base_forecast, applicable_risks, "most_likely")]]

-----------------------------------------------------------------------------
(* Inputs of the catalog's calls.                                          *)

\* factors handed to add_custom_risk_factor: a new probability factor, and
\* one that takes the name of a built-in
CustomRiskFactors ==
    {RiskFactor("Supply Shock", "operational", "probability",
                R(1, 2), R(0, 1), R(1, 1), "custom", <<"all">>),
     RiskFactor("Market Volatility", "market", "additive",
                R(0, 1), R(-1, 2), R(1, 2), "custom", <<"industry">>)}

RiskFactorNames == {"Market Volatility", "Technology Disruption", "No Such Factor"}

\* keyword arguments of update_risk_factor calls
RiskFactorKwargs ==
    {[base_value |-> R(4, 5), min_value |-> R(1, 2), max_value |-> R(9, 10)],
     [base_value |-> R(3, 2), min_value |-> R(7, 10), max_value |-> R(13, 10)],
     [not_a_field |-> 1]}

Reverse(s) == [i \in 1..Len(s) |-> s[Len(s) + 1 - i]]

\* configurations handed to import_assumptions: assumptions only, a catalog of
\* one factor, and the engine's own export with the catalog turned around
ImportConfigs(a, rfs) ==
    {[forecast_assumptions |-> [finance_weight |-> R(1, 2), not_a_field |-> 1]],
     [risk_factors |->
        <<RiskFactor("Imported Risk", "financial", "additive",
                     R(1, 10), R(0, 1), R(1, 5), "imported", <<"all">>)>>],
     [ExportAssumptions(a, rfs) EXCEPT !.risk_factors = Reverse(@)]}

BaseForecasts ==
    {Frame(RequiredCols, <<ForecastRow(2024, 1, R(100, 1)), ForecastRow(2024, 2, R(200, 1))>>),
     Frame(RequiredCols, <<ForecastRow(2024, 1, R(0, 1))>>)}

Filter(dimension) == [dimension |-> dimension, value |-> "x"]
DimensionFilters ==
    {<<>>, <<Filter("offering")>>, <<Filter("region")>>,
     <<Filter("offering"), Filter("industry")>>}

-----------------------------------------------------------------------------
(* The catalog's calls.                                                    *)

CatalogInit ==
    /\ risk_factors = DefaultRiskFactors
    /\ catalog_calls = 0
    /\ risk_out = <<>>

\* engine.add_custom_risk_factor(risk_factor)
CallAddCustomRiskFactor ==
    /\ catalog_calls < MaxCatalogCalls
    /\ catalog_calls' = catalog_calls + 1
    /\ \E rf \in CustomRiskFactors :
          risk_factors' = AddCustomRiskFactor(risk_factors, rf)
    /\ risk_out' = <<>>
    /\ UNCHANGED <<forecaster_vars, engine_vars, store_vars, scorer_vars, persp_vars, reader_vars>>

\* engine.update_risk_factor(name, **kwargs)
CallUpdateRiskFactor ==
    /\ catalog_calls < MaxCatalogCalls
    /\ catalog_calls' = catalog_calls + 1
    /\ \E name \in RiskFactorNames, kwargs \in RiskFactorKwargs :
          risk_factors' = UpdateRiskFactor(risk_factors, name, kwargs)
    /\ risk_out' = <<>>
    /\ UNCHANGED <<forecaster_vars, engine_vars, store_vars, scorer_vars, persp_vars, reader_vars>>

\* engine.import_assumptions(config)
CallImportAssumptions ==
    /\ catalog_calls < MaxCatalogCalls
    /\ catalog_calls' = catalog_calls + 1
    /\ \E config \in ImportConfigs(assumptions, risk_factors) :
          LET after == ImportAssumptions(assumptions, risk_factors, config)
          IN  /\ assumptions' = after.assumptions
              /\ risk_factors' = after.risk_factors
    /\ risk_out' = <<>>
    /\ recon_out' = <<>>
    /\ UNCHANGED <<forecaster_vars, finance_forecast, sales_forecast, store_vars, scorer_vars, persp_vars, reader_vars>>

\* engine.calculate_risk_adjusted_forecast(base_forecast, dimension_filters)
CallCalculateRiskAdjustedForecast ==
    /\ \E base_forecast \in BaseForecasts, dimension_filters \in DimensionFilters :
          risk_out' = <<CalculateRiskAdjustedForecast(risk_factors, base_forecast,
                                                      dimension_filters)>>
    /\ UNCHANGED <<forecaster_vars, engine_vars, risk_factors, catalog_calls, store_vars, scorer_vars, persp_vars, reader_vars>>

-----------------------------------------------------------------------------
(* ScenarioManager: the scenario store kept in st.session_state.           *)
(* A scenario's 'assumptions' is a reference to a dict object; the dict    *)
(* objects live in dicts, so that two scenarios sharing one object would   *)
(* show.  A value is a whole percentage.                                   *)

\* the scenarios that ScenarioManager.__init__ puts in an empty session
BaseCaseAssumptions ==
    [growth_rate |-> 5, seasonal_adjustment |-> 0, market_share |-> 0,
     new_customer_growth |-> 0, existing_customer_growth |-> 0]
OptimisticAssumptions ==
    [growth_rate |-> 12, seasonal_adjustment |-> 2, market_share |-> 3,
     new_customer_growth |-> 15, existing_customer_growth |-> 8]
ConservativeAssumptions ==
    [growth_rate |-> 1, seasonal_adjustment |-> -1, market_share |-> -1,
     new_customer_growth |-> -5, existing_customer_growth |-> -2]

DefaultScenarios(now) ==
    [n \in {"Base Case", "Optimistic", "Conservative"} |->
        [created |-> now,
         description |-> CASE n = "Base Case" -> "Base case revenue forecast"
                           [] n = "Optimistic" -> "Aggressive growth scenario"
                           [] n = "Conservative" -> "Conservative growth scenario",
         assumptions |-> CASE n = "Base Case" -> 1
                           [] n = "Optimistic" -> 2
                           [] n = "Conservative" -> 3]]
DefaultDicts ==
    [r \in 1..3 |-> CASE r = 1 -> BaseCaseAssumptions
                      [] r = 2 -> OptimisticAssumptions
                      [] r = 3 -> ConservativeAssumptions]

\* dict.update(other) and `for key, value in other.items(): d[key] = value`
DictUpdate(d, other) == other @@ d

\* a dict object that does not exist yet
NewRef(objects) == SetMin((1..(Cardinality(DOMAIN objects) + 1)) \ DOMAIN objects)

\* a copy that is the object itself
CopyTarget_Alias(objects, ref) == ref

\* the object that dict.copy() returns for the dict ref: a new one
CopyTarget(objects, ref) == NewRef(objects)

\* the dict objects still referred to by a scenario
Collect(scs, objects) ==
    [r \in {scs[n].assumptions : n \in DOMAIN scs} |-> objects[r]]

\* the outcome of a call: what it returned and the store after it
Outcome(ok, scs, objects, active) ==
    [ok |-> ok, scenarios |-> scs, dicts |-> objects, active_scenario |-> active]

\* create_scenario(name, description, base_scenario, adjustments); an
\* unknown base_scenario raises KeyError before anything is stored
CreateScenario(scs, objects, active, name, description, base_scenario, adjustments, now) ==
    IF name \in DOMAIN scs
    THEN Outcome(FALSE, scs, objects, active)
    ELSE IF base_scenario \notin DOMAIN scs
    THEN Outcome(FALSE, scs, objects, active)
    ELSE LET src == scs[base_scenario].assumptions
             base_assumptions == CopyTarget(objects, src)
             copied == (base_assumptions :> objects[src]) @@ objects
             adjusted == [copied EXCEPT ![base_assumptions] = DictUpdate(@, adjustments)]
             entry == [created |-> now, description |-> description,
                       assumptions |-> base_assumptions,
                       base_scenario |-> base_scenario]
         IN  Outcome(TRUE, (name :> entry) @@ scs, adjusted, active)

\* a delete that leaves the active scenario as it is
DeleteScenario_KeepActive(scs, objects, active, name) ==
    IF name = "Base Case"
    THEN Outcome(FALSE, scs, objects, active)
    ELSE IF name \notin DOMAIN scs
    THEN Outcome(FALSE, scs, objects, active)
    ELSE LET rest == [n \in DOMAIN scs \ {name} |-> scs[n]]
         IN  Outcome(TRUE, rest, Collect(rest, objects), active)

\* delete_scenario(name)
DeleteScenario(scs, objects, active, name) ==
    IF name = "Base Case"
    THEN Outcome(FALSE, scs, objects, active)
    ELSE IF name \notin DOMAIN scs
    THEN Outcome(FALSE, scs, objects, active)
    ELSE LET rest == [n \in DOMAIN scs \ {name} |-> scs[n]]
         IN  Outcome(TRUE, rest, Collect(rest, objects),
                     IF active = name THEN "Base Case" ELSE active)

\* a set_active that stores the name before it looks the name up
SetActiveScenario_StoresFirst(scs, objects, active, name) ==
    IF name \in DOMAIN scs
    THEN Outcome(TRUE, scs, objects, name)
    ELSE Outcome(FALSE, scs, objects, name)

\* set_active_scenario(name)
SetActiveScenario(scs, objects, active, name) ==
    IF name \in DOMAIN scs
    THEN Outcome(TRUE, scs, objects, name)
    ELSE Outcome(FALSE, scs, objects, active)

\* get_scenario_assumptions(name): the scenario's own dict, or an empty one
GetScenarioAssumptions(scs, objects, name) ==
    IF name \in DOMAIN scs THEN objects[scs[name].assumptions] ELSE <<>>

\* update_scenario_assumptions(name, assumptions): the dict is updated in place
UpdateScenarioAssumptions(scs, objects, active, name, new_assumptions) ==
    IF name \in DOMAIN scs
    THEN Outcome(TRUE, scs,
                 [objects EXCEPT ![scs[name].assumptions] = DictUpdate(@, new_assumptions)],
                 active)
    ELSE Outcome(FALSE, scs, objects, active)

-----------------------------------------------------------------------------
(* Inputs of the scenario store's calls.                                   *)

\* names handed to the calls: built-in ones, a new one, one never created
CreateNames == {"Stretch", "Optimistic"}
BaseNames == {"Base Case", "Optimistic", "No Such Scenario"}
TargetNames == {"Base Case", "Optimistic", "Stretch", "No Such Scenario"}
UpdateNames == {"Base Case", "Stretch", "No Such Scenario"}

\* adjustments of create_scenario: none, a known key, the dialog's keys
Adjustments ==
    {<<>>, [growth_rate |-> 8], [revenue_growth |-> 5, margin_target |-> 28]}

\* assumptions of update_scenario_assumptions: an edit, and the editor's
\* reset to the defaults
AssumptionUpdates ==
    {[growth_rate |-> 7, market_share |-> 1], BaseCaseAssumptions}

\* what a call was and what it returned
Ret(op, name, base_scenario, arg, ok) ==
    [op |-> op, name |-> name, base_scenario |-> base_scenario, arg |-> arg, ok |-> ok]

-----------------------------------------------------------------------------
(* The scenario store's calls.                                             *)

StoreInit ==
    /\ scenarios = DefaultScenarios(FirstNow)
    /\ dicts = DefaultDicts
    /\ active_scenario = "Base Case"
    /\ store_ret = Ret("init", "", "", <<>>, TRUE)

Stored(out) ==
    /\ scenarios' = out.scenarios
    /\ dicts' = out.dicts
    /\ active_scenario' = out.active_scenario

CallCreateScenario ==
    /\ \E name \in CreateNames, base_scenario \in BaseNames, adjustments \in Adjustments :
          LET out == CreateScenario(scenarios, dicts, active_scenario, name, "",
                                    base_scenario, adjustments, clock)
          IN  /\ Stored(out)
              /\ store_ret' = Ret("create", name, base_scenario, adjustments, out.ok)
    /\ UNCHANGED <<forecaster_vars, engine_vars, catalog_vars, scorer_vars, persp_vars, reader_vars>>

CallDeleteScenario ==
    /\ \E name \in TargetNames :
          LET out == DeleteScenario(scenarios, dicts, active_scenario, name)
          IN  /\ Stored(out)
              /\ store_ret' = Ret("delete", name, "", <<>>, out.ok)
    /\ UNCHANGED <<forecaster_vars, engine_vars, catalog_vars, scorer_vars, persp_vars, reader_vars>>

CallSetActiveScenario ==
    /\ \E name \in TargetNames :
          LET out == SetActiveScenario(scenarios, dicts, active_scenario, name)
          IN  /\ Stored(out)
              /\ store_ret' = Ret("set_active", name, "", <<>>, out.ok)
    /\ UNCHANGED <<forecaster_vars, engine_vars, catalog_vars, scorer_vars, persp_vars, reader_vars>>

CallUpdateScenarioAssumptions ==
    /\ \E name \in UpdateNames, new_assumptions \in AssumptionUpdates :
          LET out == UpdateScenarioAssumptions(scenarios, dicts, active_scenario,
                                               name, new_assumptions)
          IN  /\ Stored(out)
              /\ store_ret' = Ret("update", name, "", new_assumptions, out.ok)
    /\ UNCHANGED <<forecaster_vars, engine_vars, catalog_vars, scorer_vars, persp_vars, reader_vars>>

-----------------------------------------------------------------------------
(* Updates of an assumptions record and their readers.                     *)

\* setattr(self.assumptions, key, value) under `if hasattr(...)`
SetAttr(a, key, value) ==
    IF key \in DOMAIN a THEN [a EXCEPT ![key] = value] ELSE a

\* the record after the whole loop over the items
AfterItems(a, items) ==
    [f \in DOMAIN a |->
        IF \E i \in 1..Len(items) : items[i][1] = f
        THEN items[CHOOSE i \in 1..Len(items) :
                      /\ items[i][1] = f
                      /\ \A j \in 1..Len(items) : items[j][1] = f => j <= i][2]
        ELSE a[f]]

\* kwargs.items() of update_assumptions calls, in the order of the keywords
UpdateItems ==
    {<<<<"finance_conservatism", R(1, 1)>>, <<"finance_risk_buffer", R(0, 1)>>>>,
     <<<<"reconciliation_method", "finance_priority">>, <<"not_a_field", 1>>,
       <<"finance_weight", R(1, 1)>>>>}

\* config['forecast_assumptions'].items() of import_assumptions calls: an
\* export saved under other assumptions
ImportItems ==
    {<<<<"base_growth_rate", R(1, 10)>>, <<"finance_conservatism", R(9, 10)>>,
       <<"sales_optimism", R(11, 10)>>, <<"reconciliation_method", "sales_priority">>,
       <<"finance_weight", R(1, 2)>>>>}

\* the scenarios whose assumptions the readers look at
ReadNames == {"Base Case", "Optimistic", "No Such Scenario"}

ReadersInit ==
    /\ upd = <<>>
    /\ seen = <<>>
    /\ updates = 0

InFlight(op, items) ==
    [op |-> op, items |-> items, before |-> assumptions,
     after |-> AfterItems(assumptions, items)]

\* update_assumptions(**kwargs) is entered; one update is in flight at a time
BeginUpdateAssumptions ==
    /\ upd = <<>>
    /\ updates < MaxUpdates
    /\ updates' = updates + 1
    /\ \E items \in UpdateItems : upd' = <<InFlight("update_assumptions", items)>>
    /\ UNCHANGED <<seen, engine_vars>>
    /\ UNCHANGED <<forecaster_vars, catalog_vars, store_vars, scorer_vars, persp_vars>>

\* import_assumptions(config) is entered, config holding 'forecast_assumptions'
BeginImportAssumptions ==
    /\ upd = <<>>
    /\ updates < MaxUpdates
    /\ updates' = updates + 1
    /\ \E items \in ImportItems : upd' = <<InFlight("import_assumptions", items)>>
    /\ UNCHANGED <<seen, engine_vars>>
    /\ UNCHANGED <<forecaster_vars, catalog_vars, store_vars, scorer_vars, persp_vars>>

\* one turn of the loop `for key, value in ...items(): if hasattr: setattr` of
\* either call; the call returns after the last item
StepSetAttr ==
    /\ upd # <<>>
    /\ LET item == Head(upd[1].items)
           rest == Tail(upd[1].items)
       IN  /\ assumptions' = SetAttr(assumptions, item[1], item[2])
           /\ upd' = IF rest = <<>> THEN <<>>
                     ELSE <<[upd[1] EXCEPT !.items = rest]>>
    /\ UNCHANGED <<seen, updates, finance_forecast, sales_forecast, recon_out>>
    /\ UNCHANGED <<forecaster_vars, catalog_vars, store_vars, scorer_vars, persp_vars>>

\* a reader takes the fields of engine.assumptions, all at one instant
ReadAssumptions ==
    /\ seen' = <<[of |-> "engine.assumptions",
                  value |-> assumptions,
                  old |-> IF upd = <<>> THEN assumptions ELSE upd[1].before,
                  new |-> IF upd = <<>> THEN assumptions ELSE upd[1].after,
                  during |-> IF upd = <<>> THEN "" ELSE upd[1].op]>>
    /\ UNCHANGED <<upd, updates, engine_vars>>
    /\ UNCHANGED <<forecaster_vars, catalog_vars, store_vars, scorer_vars, persp_vars>>

\* a reader takes the items of get_scenario_assumptions(name), all at one
\* instant; update_scenario_assumptions is one dict.update call, which is
\* never in flight when a reader runs
ReadScenarioAssumptions ==
    /\ \E name \in ReadNames :
          LET d == GetScenarioAssumptions(scenarios, dicts, name)
          IN  seen' = <<[of |-> name, value |-> d, old |-> d, new |-> d,
                         during |-> ""]>>
    /\ UNCHANGED <<upd, updates, engine_vars>>
    /\ UNCHANGED <<forecaster_vars, catalog_vars, store_vars, scorer_vars, persp_vars>>

-----------------------------------------------------------------------------
(* ForecastValidationEngine: the scenario confidence score.                *)

XNeg(x) == [n |-> 0 - x.n, d |-> x.d]

\* Python's max(a, b) of a finite a and a float b: b only when b > a, so a
\* when b is nan
PyMax(a, b) == IF XGt(b, a) THEN b ELSE a

\* the square root of a perfect square
ISqrt(n) == CHOOSE k \in 0..n : k * k = n
\* the square root of a rational whose numerator and denominator are perfect
\* squares (the history tables tried have such variances)
RSqrt(q) == [n |-> ISqrt(q.n), d |-> ISqrt(q.d)]

\* the sum of an array; the terms are exact, so their grouping is free, and
\* they are added half by half
RECURSIVE RSum(_)
RSum(values) ==
    IF values = <<>> THEN Zero
    ELSE IF Len(values) = 1 THEN values[1]
    ELSE LET h == Len(values) \div 2
         IN  RAdd(RSum(SubSeq(values, 1, h)), RSum(SubSeq(values, h + 1, Len(values))))

\* Python's max(values) of a non-empty array
RECURSIVE RMaxOf(_)
RMaxOf(values) ==
    IF Len(values) = 1 THEN values[1] ELSE RMax(values[1], RMaxOf(Tail(values)))

\* np.mean(values) and np.std(values) (the population deviation)
Mean(values) == RMul(RSum(values), R(1, Len(values)))
Std(values) ==
    LET mean == Mean(values)
        squares == [i \in 1..Len(values) |->
                       RMul(RSub(values[i], mean), RSub(values[i], mean))]
    IN  RSqrt(Mean(squares))

\* round(x, 1) of a finite x: the nearest tenth, a tie going to the even one
Round1(x) ==
    LET tenths == RMul(x, RInt(10))
        floor == tenths.n \div tenths.d
        rest == RSub(tenths, RInt(floor))
        half == R(1, 2)
    IN  IF RLt(rest, half) THEN R(floor, 10)
        ELSE IF RLt(half, rest) THEN R(floor + 1, 10)
        ELSE IF floor % 2 = 0 THEN R(floor, 10)
        ELSE R(floor + 1, 10)

\* a column of a table as a list, and its number of distinct values
Column(rows, col) == [i \in 1..Len(rows) |-> rows[i][col]]
NUnique(rows, col) == Cardinality({rows[i][col] : i \in 1..Len(rows)})

\* 1. data_coverage
DataCoverage(monthly_df, scenario_data) ==
    LET total_possible_periods == NUnique(monthly_df, "period")
        periods_with_data == Len(scenario_data.monthly_totals)
        coverage_score ==
            RMul(R(periods_with_data,
                   IF total_possible_periods > 1 THEN total_possible_periods ELSE 1),
                 RInt(100))
    IN  RMin(coverage_score, RInt(100))

\* 2. data_consistency
DataConsistency(monthly_df) ==
    LET revenue_values == Column(monthly_df, "revenue")
        non_zero_values == SelectSeq(revenue_values, LAMBDA v : RLt(Zero, v))
    IN  IF Len(non_zero_values) > 1
        THEN LET cv == XDiv(Std(non_zero_values), Mean(non_zero_values))
             IN  PyMax(Zero, XAdd(RInt(100), XNeg(XScale(cv, RInt(50)))))
        ELSE RInt(50)

\* 3. temporal_distribution
TemporalDistribution(scenario_data) ==
    IF Len(scenario_data.monthly_totals) > 1
    THEN LET monthly_revenues == Column(scenario_data.monthly_totals, "revenue_adjusted")
             max_concentration == XDiv(RMaxOf(monthly_revenues), RSum(monthly_revenues))
         IN  PyMax(Zero, XAdd(RInt(100), XNeg(XScale(max_concentration, RInt(100)))))
    ELSE RInt(30)

\* 4. project_diversity
ProjectDiversity(monthly_df) ==
    LET unique_projects == NUnique(monthly_df, "project_id")
        total_records == Len(monthly_df)
    IN  IF total_records > 0
        THEN RMin(RMul(R(unique_projects, total_records), RInt(200)), RInt(100))
        ELSE Zero

\* 5. scenario_reasonableness
ScenarioReasonableness(scenario_data) ==
    LET multiplier == scenario_data.multiplier
    IN  IF RLe(R(1, 2), multiplier) /\ RLe(multiplier, RInt(2))
        THEN RSub(RInt(100), RMul(RAbs(RSub(One, multiplier)), RInt(50)))
        ELSE RMax(Zero, RSub(RInt(50), RMul(RAbs(RSub(One, multiplier)), RInt(25))))

\* _get_confidence_grade(score)
GetConfidenceGrade(score) ==
    IF RLe(RInt(90), score) THEN "A+ (Excellent)"
    ELSE IF RLe(RInt(80), score) THEN "A (Very High)"
    ELSE IF RLe(RInt(70), score) THEN "B (High)"
    ELSE IF RLe(RInt(60), score) THEN "C (Moderate)"
    ELSE IF RLe(RInt(50), score) THEN "D (Low)"
    ELSE "F (Very Low)"

\* _calculate_scenario_confidence(monthly_df, scenario_data)
CalculateScenarioConfidence(monthly_df, scenario_data) ==
    LET confidence_factors ==
            [data_coverage |-> DataCoverage(monthly_df, scenario_data),
             data_consistency |-> DataConsistency(monthly_df),
             temporal_distribution |-> TemporalDistribution(scenario_data),
             project_diversity |-> ProjectDiversity(monthly_df),
             scenario_reasonableness |-> ScenarioReasonableness(scenario_data)]
        overall_confidence ==
            RAdd(RMul(confidence_factors.data_coverage, R(25, 100)),
            RAdd(RMul(confidence_factors.data_consistency, R(25, 100)),
            RAdd(RMul(confidence_factors.temporal_distribution, R(20, 100)),
            RAdd(RMul(confidence_factors.project_diversity, R(15, 100)),
                 RMul(confidence_factors.scenario_reasonableness, R(15, 100))))))
    IN  [overall_score |-> Round1(overall_confidence),
         factors |-> confidence_factors,
         grade |-> GetConfidenceGrade(overall_confidence)]

\* calculate_forecast_confidence(monthly_df, scenarios)
CalculateForecastConfidence(monthly_df, scs) ==
    [scenario_name \in DOMAIN scs |->
        CalculateScenarioConfidence(monthly_df, scs[scenario_name])]

-----------------------------------------------------------------------------
(* ForecastValidationEngine: the anomalies.                                *)

\* the scenarios in the order of scenarios.items(): the order in which the
\* application fills the dict
ScenarioOrder(scs) ==
    SelectSeq(<<"Conservative", "Most Likely", "Optimistic", "Scenario">>,
              LAMBDA n : n \in DOMAIN scs)

\* the period strings 'YYYY-MM' tried, in their order as strings
Periods12 ==
    <<"2024-01", "2024-02", "2024-03", "2024-04", "2024-05", "2024-06",
      "2024-07", "2024-08", "2024-09", "2024-10", "2024-11", "2024-12">>
PeriodRank(period) == CHOOSE i \in 1..12 : Periods12[i] = period

\* monthly_totals.sort_values('period') over rows of distinct periods
SortValuesByPeriod(rows) ==
    LET Place(i) == Cardinality({j \in 1..Len(rows) :
                        PeriodRank(rows[j].period) <= PeriodRank(rows[i].period)})
    IN  [k \in 1..Len(rows) |-> rows[CHOOSE i \in 1..Len(rows) : Place(i) = k]]

Anomaly(type, scenario, period, value, severity) ==
    [type |-> type, scenario |-> scenario, period |-> period, value |-> value,
     severity |-> severity]

\* abs(x) > k * np.std(revenues), x = revenue - mean: both sides are not
\* negative, so the squares compare the same way
ExceedsStds(x, k, variance) == RLt(RMul(RInt(k * k), variance), RMul(x, x))

\* 1. the spikes of one scenario
RevenueSpikes(scenario_name, monthly_totals) ==
    IF Len(monthly_totals) > 1
    THEN LET revenues == Column(monthly_totals, "revenue_adjusted")
             mean_revenue == Mean(revenues)
             variance == Mean([i \in 1..Len(revenues) |->
                             RMul(RSub(revenues[i], mean_revenue),
                                  RSub(revenues[i], mean_revenue))])
             Spike(i) == ExceedsStds(RSub(revenues[i], mean_revenue), 3, variance)
             hits == SelectSeq([i \in 1..Len(revenues) |-> i], Spike)
         IN  [h \in 1..Len(hits) |->
                 Anomaly("Revenue Spike", scenario_name, monthly_totals[hits[h]].period,
                         revenues[hits[h]],
                         IF ExceedsStds(RSub(revenues[hits[h]], mean_revenue), 4, variance)
                         THEN "High" ELSE "Medium")]
    ELSE <<>>

\* 2. the zero periods of one scenario, in the order of the rows
ZeroRevenuePeriods(scenario_name, monthly_totals) ==
    LET zero_periods == SelectSeq(monthly_totals, LAMBDA r : r.revenue_adjusted = Zero)
    IN  [i \in 1..Len(zero_periods) |->
            Anomaly("Zero Revenue", scenario_name, zero_periods[i].period, Zero, "Medium")]

\* 3. the extreme growths of one scenario: the rows sorted by period, and a
\* pair looked at only when its earlier revenue is above zero
ExtremeGrowths(scenario_name, monthly_totals) ==
    LET sorted == SortValuesByPeriod(monthly_totals)
        revenues == Column(sorted, "revenue_adjusted")
        GrowthRate(i) == XDiv(RSub(revenues[i], revenues[i - 1]), revenues[i - 1])
        Extreme(i) == /\ i > 1
                      /\ RLt(Zero, revenues[i - 1])
                      /\ XGt(XAbs(GrowthRate(i)), RInt(2))
        hits == SelectSeq([i \in 1..Len(revenues) |-> i], Extreme)
    IN  [h \in 1..Len(hits) |->
            Anomaly("Extreme Growth", scenario_name, sorted[hits[h]].period,
                    XScale(GrowthRate(hits[h]), RInt(100)),
                    IF XGt(XAbs(GrowthRate(hits[h])), RInt(5)) THEN "High" ELSE "Medium")]

\* one of the three loops over scenarios.items(): what the loop appends, given
\* what its body appends for each scenario
RECURSIVE OverScenarios(_, _)
OverScenarios(appended, names) ==
    IF names = <<>> THEN <<>>
    ELSE appended[names[1]] \o OverScenarios(appended, Tail(names))

\* detect_forecast_anomalies(monthly_df, scenarios): monthly_df is not read
DetectForecastAnomalies(monthly_df, scs) ==
    LET names == ScenarioOrder(scs)
        spikes == [n \in DOMAIN scs |-> RevenueSpikes(n, scs[n].monthly_totals)]
        zeros == [n \in DOMAIN scs |-> ZeroRevenuePeriods(n, scs[n].monthly_totals)]
        growths == [n \in DOMAIN scs |-> ExtremeGrowths(n, scs[n].monthly_totals)]
    IN  OverScenarios(spikes, names) \o OverScenarios(zeros, names)
            \o OverScenarios(growths, names)

-----------------------------------------------------------------------------
(* Inputs of the scorer.                                                   *)

MonthlyRow(period, revenue, project_id) ==
    [period |-> period, revenue |-> RInt(revenue), project_id |-> project_id]
TotalsRow(period, revenue_adjusted) ==
    [period |-> period, revenue_adjusted |-> RInt(revenue_adjusted)]

\* history tables: steady, spread, one project, all zero, with a negative
\* record, and no records
MonthlyTables ==
    {<<MonthlyRow("2024-01", 100, "P1"), MonthlyRow("2024-02", 100, "P2")>>,
     <<MonthlyRow("2024-01", 100, "P1"), MonthlyRow("2024-02", 300, "P2")>>,
     <<MonthlyRow("2024-01", 100, "P1"), MonthlyRow("2024-02", 100, "P1"),
       MonthlyRow("2024-03", 100, "P1")>>,
     <<MonthlyRow("2024-01", 0, "P1"), MonthlyRow("2024-02", 0, "P1"),
       MonthlyRow("2024-03", 0, "P2")>>,
     <<MonthlyRow("2024-01", -100, "P1"), MonthlyRow("2024-01", 100, "P2"),
       MonthlyRow("2024-02", 100, "P2")>>,
     <<>>}

\* the periods of a scenario, in order
Totals(values) ==
    [i \in 1..Len(values) |->
        TotalsRow(CASE i = 1 -> "2024-01" [] i = 2 -> "2024-02" [] OTHER -> "2024-03",
                  values[i])]

\* period revenues of a scenario: even, nearly even, concentrated, all zero,
\* with negative values, one period, none
TotalsValues ==
    {<<100, 100>>, <<251, 249>>, <<300, 100, 100>>, <<0, 0>>, <<-100, 50>>,
     <<50, -50>>, <<100, -10>>, <<100>>, <<>>}

\* the multipliers of generate_enhanced_scenarios, and others
Multipliers == {R(85, 100), R(1, 1), R(115, 100), R(3, 1), R(1, 4), R(0, 1)}

ScenarioData(values, multiplier) ==
    [multiplier |-> multiplier, monthly_totals |-> Totals(values)]

\* period revenues around the bounds of the growth check (200 % and 500 %),
\* after a zero and after a negative revenue
GrowthValues ==
    {<<100, 300>>, <<100, 301>>, <<100, 600>>, <<100, 601>>, <<400, 100, 0>>,
     <<0, 100, 0>>, <<-100, 300>>, <<-100, -500, 0>>}

\* a scenario whose rows are not in the order of the periods
UnsortedTotals ==
    <<TotalsRow("2024-03", 900), TotalsRow("2024-01", 100), TotalsRow("2024-02", 0)>>

\* a year of even periods with one spike in June
SpikeTotals == [i \in 1..12 |-> TotalsRow(Periods12[i], IF i = 6 THEN 1300 ELSE 100)]

\* scenario sets: every single scenario, and the three of the application
ScenarioSets ==
    {[n \in {"Scenario"} |-> ScenarioData(v, m)] : v \in TotalsValues, m \in Multipliers}
    \cup {[n \in {"Scenario"} |-> ScenarioData(v, One)] : v \in GrowthValues}
    \cup {[n \in {"Scenario"} |-> [multiplier |-> One, monthly_totals |-> t]] :
              t \in {UnsortedTotals, SpikeTotals}}
    \cup {[n \in {"Conservative", "Most Likely", "Optimistic"} |->
              ScenarioData(CASE n = "Conservative" -> <<0, 100>>
                             [] n = "Most Likely" -> <<100, 0, 100>>
                             [] n = "Optimistic" -> <<100, 700>>, One)]}
    \cup {[n \in {"Conservative", "Most Likely", "Optimistic"} |->
              ScenarioData(<<100, 300>>,
                           CASE n = "Conservative" -> R(85, 100)
                             [] n = "Most Likely" -> R(1, 1)
                             [] n = "Optimistic" -> R(115, 100))]}

-----------------------------------------------------------------------------
(* The scorer's calls.                                                     *)

ScorerInit ==
    /\ score_in \in {[monthly_df |-> h, scenarios |-> scs] :
                        h \in MonthlyTables, scs \in ScenarioSets}
    /\ score_out = <<>>
    /\ anomalies_out = <<>>

\* validation_engine.calculate_forecast_confidence(monthly_df, scenarios)
CallCalculateForecastConfidence ==
    /\ score_out' = <<CalculateForecastConfidence(score_in.monthly_df, score_in.scenarios)>>
    /\ UNCHANGED <<forecaster_vars, engine_vars, catalog_vars, store_vars, score_in, anomalies_out,
                   persp_vars, reader_vars>>

\* validation_engine.detect_forecast_anomalies(monthly_df, scenarios)
CallDetectForecastAnomalies ==
    /\ anomalies_out' = <<DetectForecastAnomalies(score_in.monthly_df, score_in.scenarios)>>
    /\ UNCHANGED <<forecaster_vars, engine_vars, catalog_vars, store_vars, score_in, score_out,
                   persp_vars, reader_vars>>

-----------------------------------------------------------------------------
(* Specifications: each component's calls with the others at rest.         *)

ForecasterAtRest ==
    /\ input = [table |-> NoneTable, assumptions |-> Assume(0, 0, 0, 0, 0),
                periods |-> 1, scenario |-> "Base Case"]
    /\ table = NoneTable
    /\ historical_data = <<>>
    /\ forecast_data = <<>>
    /\ pc = "idle"
    /\ run = 1
    /\ prev_forecast = <<>>
    /\ clock = FirstNow
    /\ rng = 0

EngineAtRest ==
    /\ assumptions = DefaultAssumptions
    /\ finance_forecast = Frame(RequiredCols, <<>>)
    /\ sales_forecast = Frame(RequiredCols, <<>>)
    /\ recon_out = <<>>

CatalogAtRest ==
    /\ risk_factors = DefaultRiskFactors
    /\ catalog_calls = 0
    /\ risk_out = <<>>

StoreAtRest ==
    /\ scenarios = DefaultScenarios(FirstNow)
    /\ dicts = DefaultDicts
    /\ active_scenario = "Base Case"
    /\ store_ret = Ret("init", "", "", <<>>, TRUE)

ScorerAtRest ==
    /\ score_in = [monthly_df |-> <<>>, scenarios |-> <<>>]
    /\ score_out = <<>>
    /\ anomalies_out = <<>>

PerspectiveAtRest ==
    /\ persp_in = [base_data |-> <<>>, projects_df |-> <<>>]
    /\ persp_out = <<>>

InitForecaster ==
    ForecasterInit /\ EngineAtRest /\ CatalogAtRest /\ StoreAtRest /\ ScorerAtRest /\ PerspectiveAtRest
    /\ ReadersInit
NextForecaster ==
    \/ Construct
    \/ Forecast
    \/ SecondRun
SpecForecaster == InitForecaster /\ [][NextForecaster]_vars

InitEngine ==
    EngineInit /\ ForecasterAtRest /\ CatalogAtRest /\ StoreAtRest /\ ScorerAtRest /\ PerspectiveAtRest
    /\ ReadersInit
NextEngine ==
    \/ CallUpdateAssumptions
    \/ CallReconcileForecasts
SpecEngine == InitEngine /\ [][NextEngine]_vars

InitCatalog ==
    CatalogInit /\ ForecasterAtRest /\ EngineAtRest /\ StoreAtRest /\ ScorerAtRest /\ PerspectiveAtRest
    /\ ReadersInit
NextCatalog ==
    \/ CallAddCustomRiskFactor
    \/ CallUpdateRiskFactor
    \/ CallImportAssumptions
    \/ CallCalculateRiskAdjustedForecast
SpecCatalog == InitCatalog /\ [][NextCatalog]_vars

InitStore ==
    StoreInit /\ ForecasterAtRest /\ EngineAtRest /\ CatalogAtRest /\ ScorerAtRest /\ PerspectiveAtRest
    /\ ReadersInit
NextStore ==
    \/ CallCreateScenario
    \/ CallDeleteScenario
    \/ CallSetActiveScenario
    \/ CallUpdateScenarioAssumptions
SpecStore == InitStore /\ [][NextStore]_vars

InitScorer ==
    ScorerInit /\ ForecasterAtRest /\ EngineAtRest /\ CatalogAtRest /\ StoreAtRest /\ PerspectiveAtRest
    /\ ReadersInit
NextScorer ==
    \/ CallCalculateForecastConfidence
    \/ CallDetectForecastAnomalies
SpecScorer == InitScorer /\ [][NextScorer]_vars

InitPerspective ==
    PerspectiveInit /\ ForecasterAtRest /\ CatalogAtRest /\ StoreAtRest /\ ScorerAtRest
    /\ ReadersInit
NextPerspective ==
    \/ CallUpdatePerspectiveAssumptions
    \/ CallGenerateFinancePerspective
    \/ CallGenerateSalesPerspective
SpecPerspective == InitPerspective /\ [][NextPerspective]_vars

InitReaders ==
    ReadersInit /\ ForecasterAtRest /\ EngineAtRest /\ CatalogAtRest /\ StoreAtRest
    /\ ScorerAtRest /\ PerspectiveAtRest
NextReaders ==
    \/ BeginUpdateAssumptions
    \/ BeginImportAssumptions
    \/ StepSetAttr
    \/ ReadAssumptions
    \/ CallUpdateScenarioAssumptions
    \/ ReadScenarioAssumptions
SpecReaders == InitReaders /\ [][NextReaders]_vars


-----------------------------------------------------------------------------
(* Properties of the scenario projector.                                   *)

LastHistoricalRevenue == Last(historical_data).revenue

\* C1: every point forecast_revenue returns has revenue >= 0, whatever the
\* assumptions (also with factors that are negative) and whatever the sign of
\* the last historical revenue, and it returns one point per period.
C1_NonNegativeRevenue ==
    pc = "done" =>
        /\ Len(forecast_data) = input.periods
        /\ \A i \in 1..Len(forecast_data) :
              /\ forecast_data[i].revenue.d > 0
              /\ forecast_data[i].revenue.n >= 0

\* C1 witness: a run from a positive last revenue under a growth rate of
\* -200 % (a factor of -1), whose first forecast revenue is 0.
C1_Witness ==
    /\ pc = "done"
    /\ LastHistoricalRevenue.n > 0
    /\ Get(input.assumptions, "growth_rate", 5) = -200
    /\ forecast_data[1].revenue = Zero

\* The formula of the claim, in integer percent arithmetic: the revenue of
\* period i in quarter q from the revenue before it. A key the dict leaves
\* out counts with the default of forecast_revenue (growth_rate 5, others 0).
ClaimSeasonalFactor(s, q) ==
    IF q = 4 THEN R(100 + s, 100)
    ELSE IF q = 1 THEN R(100 - s, 100)
    ELSE R(1000 + 3 * s, 1000)
ClaimDecayTenths(i) == IF 10 - i > 3 THEN 10 - i ELSE 3
ClaimRevenue(prev, a, q, i) ==
    LET g == Get(a, "growth_rate", 5)
        s == Get(a, "seasonal_adjustment", 0)
        m == Get(a, "market_share", 0)
        n == Get(a, "new_customer_growth", 0)
        e == Get(a, "existing_customer_growth", 0)
        product ==
            RMul(prev,
                 RMul(R(100 + g, 100),
                      RMul(ClaimSeasonalFactor(s, q),
                           RMul(R(100 + m, 100),
                                RMul(R(1000 + n * ClaimDecayTenths(i), 1000),
                                     R(100 + e, 100))))))
    IN  IF product.n < 0 THEN Zero ELSE product

\* the quarter of the i-th quarter after the last historical point
ClaimQuarter(i) ==
    ((((Last(historical_data).date.ym + 3 * i) % 12) \div 3) + 1)

\* C2: forecast_revenue chains period by period from the last historical
\* revenue: revenue_i = max(0, revenue_(i-1) * growth * seasonal(quarter_i) *
\* market * new-customer(decayed, floor 0.3) * existing-customer); history
\* 100, 102, 98, 110 over the quarters of a year with growth_rate 5 and the
\* other assumptions 0 gives 115.5 for the first forecast period.
C2_ChainedFormula ==
    pc = "done" =>
        /\ \A i \in 1..input.periods :
              forecast_data[i].revenue =
                  ClaimRevenue(IF i = 1 THEN LastHistoricalRevenue
                               ELSE forecast_data[i - 1].revenue,
                               input.assumptions, ClaimQuarter(i), i)
        /\ (input.table = QuarterlyTable /\ input.assumptions = Assume(5, 0, 0, 0, 0))
              => /\ [i \in 1..4 |-> historical_data[i].revenue]
                        = <<RInt(100), RInt(102), RInt(98), RInt(110)>>
                 /\ [i \in 1..4 |-> historical_data[i].quarter] = <<1, 2, 3, 4>>
                 /\ forecast_data[1].revenue = R(231, 2)

\* C2 witness: a forecast of eight periods with a new-customer effect, whose
\* eighth revenue is not 0: the decay has reached its floor of 0.3 there.
C2_Witness ==
    /\ pc = "done"
    /\ input.periods >= 8
    /\ Get(input.assumptions, "new_customer_growth", 0) # 0
    /\ forecast_data[8].revenue # Zero
    /\ forecast_data[8].revenue # forecast_data[7].revenue

\* the worked example of the claim is reached: 110 * 1.05 = 115.5
C2_ExampleReached ==
    /\ pc = "done"
    /\ input.table = QuarterlyTable
    /\ input.assumptions = Assume(5, 0, 0, 0, 0)
    /\ forecast_data[1].revenue = R(231, 2)

\* C3 as claimed: two runs on the same historical input, assumptions and
\* periods return the same sequence of points.
C3_SameInputSameForecast ==
    (run = 2 /\ pc = "done") => forecast_data = prev_forecast

\* the inputs from which the constructor builds the series out of the rows'
\* own dates: a table with rows, a revenue column, a date column and at
\* least one date that parses
IsDatedInput(df) ==
    /\ ~df.none
    /\ Len(df.rows) > 0
    /\ RevenueColumns(df) # <<>>
    /\ DateColumns(df) # <<>>
    /\ \E i \in 1..Len(df.rows) : df.rows[i][DateColumns(df)[1]].k \in {"str", "ts"}

\* C3 as amended: two runs on the same dated historical input, assumptions
\* and periods return the same sequence of points (dates, labels, revenues),
\* whatever the time of either run and the state of the random generator.
C3_DatedInputDeterministic ==
    (run = 2 /\ pc = "done" /\ IsDatedInput(input.table))
        => forecast_data = prev_forecast

\* C3 witness: the second run on a dated table has ended, at a later time
\* than the first, with the forecast the first run returned.
C3_Witness ==
    /\ run = 2
    /\ pc = "done"
    /\ IsDatedInput(input.table)
    /\ clock # FirstNow
    /\ Len(forecast_data) = input.periods
    /\ forecast_data = prev_forecast


-----------------------------------------------------------------------------
(* Properties of the reconciliation engine.                                *)

Called == recon_out # <<>>
Result == recon_out[1]
Records == Result.reconciliation

\* the periods a frame holds rows for (none when it lacks a required field)
ClaimPeriods(df) ==
    IF RequiredCols \subseteq df.columns
    THEN {<<df.rows[i].year, df.rows[i].month>> : i \in 1..Len(df.rows)}
    ELSE {}
\* the sum of the revenue of a frame's rows of one period
RECURSIVE ClaimPeriodTotal(_, _, _)
ClaimPeriodTotal(df, period, i) ==
    IF i > Len(df.rows) THEN 0
    ELSE (IF <<df.rows[i].year, df.rows[i].month>> = period
          THEN df.rows[i].revenue ELSE 0)
         + ClaimPeriodTotal(df, period, i + 1)

\* C4 as claimed: under weighted_average every record's reconciled_revenue
\* lies between the smaller and the larger of its finance and sales revenue,
\* for every finance_weight the assumptions can hold.
C4_WeightedAverageWithinBounds ==
    (Called /\ assumptions.reconciliation_method = "weighted_average") =>
        \A i \in 1..Len(Records) :
            LET r == Records[i]
            IN  /\ RLe(RMin(r.revenue_finance, r.revenue_sales), r.reconciled_revenue)
                /\ RLe(r.reconciled_revenue, RMax(r.revenue_finance, r.revenue_sales))

\* C5: under finance_priority every record's reconciled_revenue is the
\* finance revenue of its period, under sales_priority the sales revenue.
C5_PriorityMethods ==
    Called =>
        \A i \in 1..Len(Records) :
            LET r == Records[i]
                period == <<r.year, r.month>>
            IN  /\ assumptions.reconciliation_method = "finance_priority"
                      => /\ r.reconciled_revenue = r.revenue_finance
                         /\ r.reconciled_revenue
                                = RInt(ClaimPeriodTotal(finance_forecast, period, 1))
                /\ assumptions.reconciliation_method = "sales_priority"
                      => /\ r.reconciled_revenue = r.revenue_sales
                         /\ r.reconciled_revenue
                                = RInt(ClaimPeriodTotal(sales_forecast, period, 1))

\* C5 witness: a reconciliation under finance_priority with a record whose
\* finance and sales revenue differ.
C5_Witness ==
    /\ Called
    /\ assumptions.reconciliation_method = "finance_priority"
    /\ \E i \in 1..Len(Records) :
          /\ Records[i].revenue_finance # Records[i].revenue_sales
          /\ Records[i].reconciled_revenue = Records[i].revenue_finance

\* C6 as claimed: variance_abs = sales - finance, variance_pct =
\* variance_abs / finance * 100, and variance_pct is 0 where finance is 0.
C6_VariancePctZeroOnZeroFinance ==
    Called =>
        \A i \in 1..Len(Records) :
            LET r == Records[i]
            IN  /\ r.variance_abs = RSub(r.revenue_sales, r.revenue_finance)
                /\ r.revenue_finance # Zero
                      => r.variance_pct
                            = R(r.variance_abs.n * r.revenue_finance.d * 100,
                                r.variance_abs.d * r.revenue_finance.n)
                /\ r.revenue_finance = Zero => r.variance_pct = Zero

\* C7: one record per period that occurs in both inputs, no period twice,
\* none for a period of one input only, and each record carries the sums of
\* the two inputs' rows of its period.
C7_OneRecordPerCommonPeriod ==
    Called =>
        /\ {<<Records[i].year, Records[i].month>> : i \in 1..Len(Records)}
              = ClaimPeriods(finance_forecast) \cap ClaimPeriods(sales_forecast)
        /\ \A i, j \in 1..Len(Records) :
              (Records[i].year = Records[j].year /\ Records[i].month = Records[j].month)
                  => i = j
        /\ \A i \in 1..Len(Records) :
              LET period == <<Records[i].year, Records[i].month>>
              IN  /\ Records[i].revenue_finance
                        = RInt(ClaimPeriodTotal(finance_forecast, period, 1))
                  /\ Records[i].revenue_sales
                        = RInt(ClaimPeriodTotal(sales_forecast, period, 1))

\* C7 witness: a reconciliation that kept a period with several finance rows
\* and dropped a period that only the finance input has.
C7_Witness ==
    /\ Called
    /\ Len(Records) >= 1
    /\ \E i, j \in 1..Len(finance_forecast.rows) :
          /\ i # j
          /\ finance_forecast.rows[i].month = finance_forecast.rows[j].month
          /\ finance_forecast.rows[i].year = finance_forecast.rows[j].year
          /\ finance_forecast.rows[i].revenue # 0
          /\ finance_forecast.rows[j].revenue # 0
          /\ \E k \in 1..Len(Records) :
                /\ Records[k].year = finance_forecast.rows[i].year
                /\ Records[k].month = finance_forecast.rows[i].month
    /\ ClaimPeriods(finance_forecast) \ ClaimPeriods(sales_forecast) # {}

\* the degenerate inputs: a forecast that is empty or lacks a required
\* field, or two forecasts without a common period
Degenerate ==
    \/ IsEmptyFrame(finance_forecast)
    \/ IsEmptyFrame(sales_forecast)
    \/ ~(RequiredCols \subseteq finance_forecast.columns)
    \/ ~(RequiredCols \subseteq sales_forecast.columns)
    \/ ClaimPeriods(finance_forecast) \cap ClaimPeriods(sales_forecast) = {}

\* C8: on a degenerate input reconcile_forecasts returns the zeroed
\* structure: no records, the three totals 0, total_variance 0,
\* avg_variance_pct 0, no high or medium variance month, trend 'stable'.
C8_DegenerateInputsZeroed ==
    (Called /\ Degenerate) =>
        /\ Result.reconciliation = <<>>
        /\ Result.finance_total = Zero
        /\ Result.sales_total = Zero
        /\ Result.reconciled_total = Zero
        /\ Result.variance_analysis.total_variance = Zero
        /\ Result.variance_analysis.avg_variance_pct = Zero
        /\ Result.variance_analysis.high_variance_months = 0
        /\ Result.variance_analysis.medium_variance_months = 0
        /\ Result.variance_analysis.variance_trend = "stable"

\* C8 witness: a reconciliation of two forecasts that both have rows and all
\* the required fields, and no period in common.
C8_Witness ==
    /\ Called
    /\ ClaimPeriods(finance_forecast) # {}
    /\ ClaimPeriods(sales_forecast) # {}
    /\ ClaimPeriods(finance_forecast) \cap ClaimPeriods(sales_forecast) = {}
    /\ \E i \in 1..Len(finance_forecast.rows) : finance_forecast.rows[i].revenue # 0
    /\ Result.finance_total = Zero

\* C9 as claimed: a method other than the three known ones is rejected;
\* reconcile_forecasts returns no reconciled records under it.
C9_UnknownMethodRejected ==
    (Called /\ assumptions.reconciliation_method \notin KnownMethods)
        => Records = <<>>

\* whether |variance_pct| > k, on the value the record carries
ClaimAbsPctOver(r, k) ==
    IF r.variance_pct.d = 0 THEN r.variance_pct.n # 0
    ELSE Abs(r.variance_pct.n) > k * r.variance_pct.d

\* C10: high_variance_months counts the records with |variance_pct| > 20,
\* medium_variance_months those with 10 < |variance_pct| <= 20, no record in
\* both; finance 100 and sales 130 for one period under weighted_average
\* with weight 0.6 give reconciled 112, variance 30, 30 % and one high month.
C10_VarianceCounts ==
    Called =>
        LET high == {i \in 1..Len(Records) : ClaimAbsPctOver(Records[i], 20)}
            medium == {i \in 1..Len(Records) :
                          ClaimAbsPctOver(Records[i], 10) /\ ~ClaimAbsPctOver(Records[i], 20)}
        IN  /\ Result.variance_analysis.high_variance_months = Cardinality(high)
            /\ Result.variance_analysis.medium_variance_months = Cardinality(medium)
            /\ high \cap medium = {}
            /\ (/\ finance_forecast = Frame(RequiredCols, <<ForecastRow(2024, 1, 100)>>)
                /\ sales_forecast = Frame(RequiredCols, <<ForecastRow(2024, 1, 130)>>)
                /\ assumptions.reconciliation_method = "weighted_average"
                /\ assumptions.finance_weight = R(6, 10))
                  => /\ Len(Records) = 1
                     /\ Records[1].reconciled_revenue = RInt(112)
                     /\ Records[1].variance_abs = RInt(30)
                     /\ Records[1].variance_pct = RInt(30)
                     /\ Result.variance_analysis.high_variance_months = 1
                     /\ Result.variance_analysis.medium_variance_months = 0

\* C10 witness: the worked example has been reconciled and shows one high
\* variance month.
C10_Witness ==
    /\ Called
    /\ finance_forecast = Frame(RequiredCols, <<ForecastRow(2024, 1, 100)>>)
    /\ sales_forecast = Frame(RequiredCols, <<ForecastRow(2024, 1, 130)>>)
    /\ assumptions.reconciliation_method = "weighted_average"
    /\ assumptions.finance_weight = R(6, 10)
    /\ Result.variance_analysis.high_variance_months = 1

\* a reconciliation with a record at exactly 20 % and one at exactly 10 %
C10_BoundariesReached ==
    /\ Called
    /\ \E i \in 1..Len(Records) : Records[i].variance_pct = RInt(20)
    /\ \E i \in 1..Len(Records) : Records[i].variance_pct = RInt(10)
    /\ Result.variance_analysis.medium_variance_months = 1
    /\ Result.variance_analysis.high_variance_months = 0

-----------------------------------------------------------------------------
(* Properties of the risk factor catalog and the scenario generator.       *)

RiskCalled == risk_out # <<>>
RiskResult == risk_out[1]
ScenarioTypes == {"optimistic", "pessimistic", "most_likely"}

\* the value the specification picks for a factor in a scenario
ClaimRiskValue(rf, scenario_type) ==
    CASE scenario_type = "optimistic" ->
            (IF rf.impact_type = "multiplier" THEN rf.min_value ELSE rf.max_value)
      [] scenario_type = "pessimistic" ->
            (IF rf.impact_type = "multiplier" /\ RLt(rf.max_value, One)
             THEN rf.max_value ELSE rf.min_value)
      [] scenario_type = "most_likely" -> rf.base_value

\* the factor by which the specification scales the revenue
ClaimRiskMultiplier(rf, scenario_type) ==
    LET value == ClaimRiskValue(rf, scenario_type)
    IN  CASE rf.impact_type = "multiplier" -> value
          [] rf.impact_type = "additive" -> RAdd(One, value)
          [] rf.impact_type = "probability" -> RSub(One, RMul(R(1, 2), value))

\* the product over the factors, taken half by half
RECURSIVE ClaimRiskProduct(_, _)
ClaimRiskProduct(factors, scenario_type) ==
    IF factors = <<>>
    THEN One
    ELSE IF Len(factors) = 1
    THEN ClaimRiskMultiplier(factors[1], scenario_type)
    ELSE LET h == Len(factors) \div 2
         IN  RMul(ClaimRiskProduct(SubSeq(factors, 1, h), scenario_type),
                  ClaimRiskProduct(SubSeq(factors, h + 1, Len(factors)), scenario_type))

HasImpactType(factors, impact_type) ==
    \E i \in 1..Len(factors) : factors[i].impact_type = impact_type

SomeRevenueNonZero(forecast) ==
    \E i \in 1..Len(forecast.rows) : forecast.rows[i].revenue # Zero

\* C11: in each of the three scenarios, every period's adjusted revenue is
\* the base revenue times the product, over the risk factors applied, of
\* value (multiplier), 1+value (additive) or 1-0.5*value (probability),
\* where value is min_value/max_value/base_value as the scenario prescribes
C11_RiskScenarioFormula ==
    RiskCalled =>
        \A t \in ScenarioTypes :
            LET adjusted == RiskResult.scenarios[t]
                base == RiskResult.base_forecast
                k == ClaimRiskProduct(RiskResult.applicable_risks, t)
            IN  /\ Len(adjusted.rows) = Len(base.rows)
                /\ \A i \in 1..Len(base.rows) :
                      /\ adjusted.rows[i].revenue = RMul(base.rows[i].revenue, k)
                      /\ adjusted.rows[i].year = base.rows[i].year
                      /\ adjusted.rows[i].month = base.rows[i].month

\* C11's case: factors of all three impact types were applied, one of them
\* a multiplier whose max_value is below 1, to a forecast with revenue
C11_Witness ==
    /\ RiskCalled
    /\ SomeRevenueNonZero(RiskResult.base_forecast)
    /\ HasImpactType(RiskResult.applicable_risks, "additive")
    /\ HasImpactType(RiskResult.applicable_risks, "probability")
    /\ \E i \in 1..Len(RiskResult.applicable_risks) :
          /\ RiskResult.applicable_risks[i].impact_type = "multiplier"
          /\ RLt(RiskResult.applicable_risks[i].max_value, One)
    /\ RiskResult.scenarios.optimistic # RiskResult.scenarios.pessimistic

\* C12: when every risk factor applied is a multiplier with base_value 1.0,
\* the most_likely scenario has the revenue of the base forecast in every
\* period
C12_MostLikelyIdentity ==
    (/\ RiskCalled
     /\ \A i \in 1..Len(RiskResult.applicable_risks) :
           /\ RiskResult.applicable_risks[i].impact_type = "multiplier"
           /\ RiskResult.applicable_risks[i].base_value = One)
    => RiskResult.scenarios.most_likely = RiskResult.base_forecast

\* C12's case: at least two such multipliers were applied to a forecast with
\* revenue, and the other scenarios did change it
C12_Witness ==
    /\ RiskCalled
    /\ Len(RiskResult.applicable_risks) >= 2
    /\ \A i \in 1..Len(RiskResult.applicable_risks) :
          /\ RiskResult.applicable_risks[i].impact_type = "multiplier"
          /\ RiskResult.applicable_risks[i].base_value = One
    /\ SomeRevenueNonZero(RiskResult.base_forecast)
    /\ RiskResult.scenarios.optimistic # RiskResult.base_forecast
    /\ RiskResult.scenarios.most_likely = RiskResult.base_forecast

\* the list with the factors at positions i and j exchanged
Swap(factors, i, j) ==
    [k \in 1..Len(factors) |->
        IF k = i THEN factors[j] ELSE IF k = j THEN factors[i] ELSE factors[k]]

\* an additive and a probability factor were applied, each changing revenue
MixedFactorsApplied ==
    /\ RiskCalled
    /\ SomeRevenueNonZero(RiskResult.base_forecast)
    /\ \E i, j \in 1..Len(RiskResult.applicable_risks) :
          /\ RiskResult.applicable_risks[i].impact_type = "additive"
          /\ RiskResult.applicable_risks[j].impact_type = "probability"
          /\ ClaimRiskMultiplier(RiskResult.applicable_risks[i], "optimistic") # One
          /\ ClaimRiskMultiplier(RiskResult.applicable_risks[j], "optimistic") # One

\* C13 as stated: where an additive and a probability factor are among the
\* factors applied, some exchange of two factors gives a different adjusted
\* revenue in some scenario
C13_OrderDependent ==
    MixedFactorsApplied =>
        \E t \in ScenarioTypes :
            \E i, j \in 1..Len(RiskResult.applicable_risks) :
                ApplyRiskScenario(RiskResult.base_forecast,
                                  Swap(RiskResult.applicable_risks, i, j), t)
                # RiskResult.scenarios[t]

\* C13 amended: the adjusted revenue does not depend on the order of the
\* risk factors: exchanging any two of the factors applied (and so any
\* reordering of them) gives the same adjusted revenue in every scenario
C13_OrderIndependent ==
    RiskCalled =>
        \A t \in ScenarioTypes :
            \A i, j \in 1..Len(RiskResult.applicable_risks) :
                ApplyRiskScenario(RiskResult.base_forecast,
                                  Swap(RiskResult.applicable_risks, i, j), t)
                = RiskResult.scenarios[t]

\* C13's case: additive and probability factors that change the revenue were
\* applied, after the catalog was put in another order than the built-in one
C13_Witness ==
    /\ MixedFactorsApplied
    /\ Len(risk_factors) = Len(DefaultRiskFactors)
    /\ risk_factors = Reverse(DefaultRiskFactors)
    /\ RiskResult.scenarios.optimistic # RiskResult.base_forecast

\* C14: every risk factor in the catalog has min_value <= base_value <=
\* max_value
C14_BoundsOrdered ==
    \A i \in 1..Len(risk_factors) :
        /\ RLe(risk_factors[i].min_value, risk_factors[i].base_value)
        /\ RLe(risk_factors[i].base_value, risk_factors[i].max_value)

\* C15: no two risk factors in the catalog have the same name
C15_NamesUnique ==
    \A i, j \in 1..Len(risk_factors) :
        risk_factors[i].name = risk_factors[j].name => i = j

\* C16: each of the six built-in risk factors is still in the catalog
C16_BuiltInsKept ==
    \A k \in 1..Len(DefaultRiskFactors) :
        \E i \in 1..Len(risk_factors) :
            risk_factors[i].name = DefaultRiskFactors[k].name

-----------------------------------------------------------------------------
(* Properties of the scenario store.                                       *)

\* the assumptions of scenario n in the store (scs, objects)
AssumptionsOf(scs, objects, n) == objects[scs[n].assumptions]

\* a step in which create_scenario stored a scenario: the new scenario has
\* the base's assumptions of before the call with the adjustments applied,
\* it records the base, and the base's assumptions are as before
CreateCopiesBase ==
    (store_ret'.op = "create" /\ store_ret'.ok) =>
        LET n == store_ret'.name
            b == store_ret'.base_scenario
        IN  /\ n \notin DOMAIN scenarios
            /\ n \in DOMAIN scenarios'
            /\ AssumptionsOf(scenarios', dicts', n)
                  = DictUpdate(AssumptionsOf(scenarios, dicts, b), store_ret'.arg)
            /\ scenarios'[n].base_scenario = b
            /\ \A m \in DOMAIN scenarios :
                  /\ m \in DOMAIN scenarios'
                  /\ AssumptionsOf(scenarios', dicts', m) = AssumptionsOf(scenarios, dicts, m)

\* a step in which update_scenario_assumptions was called on a scenario:
\* the assumptions of every other scenario are as before
UpdateTouchesOneScenario ==
    store_ret'.op = "update" =>
        \A m \in DOMAIN scenarios \ {store_ret'.name} :
            /\ m \in DOMAIN scenarios'
            /\ AssumptionsOf(scenarios', dicts', m) = AssumptionsOf(scenarios, dicts, m)

\* C17: create_scenario stores a copy of the base's assumptions of that time
\* with the adjustments applied and records base_scenario, leaving the base
\* as it was; a later update_scenario_assumptions on the base does not
\* change the derived scenario's assumptions, nor the reverse
C17_DerivedScenarioIsACopy ==
    [][CreateCopiesBase /\ UpdateTouchesOneScenario]_vars

\* C17's case: Stretch was derived from Base Case with growth_rate 5, and
\* Base Case has since been updated to growth_rate 7
C17_Witness ==
    /\ "Stretch" \in DOMAIN scenarios
    /\ scenarios["Stretch"].base_scenario = "Base Case"
    /\ store_ret.op = "update" /\ store_ret.name = "Base Case" /\ store_ret.ok
    /\ AssumptionsOf(scenarios, dicts, "Base Case").growth_rate = 7
    /\ AssumptionsOf(scenarios, dicts, "Stretch").growth_rate = 5

-----------------------------------------------------------------------------
(* Properties of the confidence scorer.                                    *)

Scored == score_out # <<>>
Scores == score_out[1]

\* C18: the overall_score of every scenario scored is within [0, 100]
C18_OverallScoreWithinBounds ==
    Scored =>
        \A n \in DOMAIN Scores :
            /\ RLe(Zero, Scores[n].overall_score)
            /\ RLe(Scores[n].overall_score, RInt(100))

\* the band that the specification gives a score
ClaimBand(score) ==
    CASE RLe(RInt(90), score) -> "A+ (Excellent)"
      [] RLt(score, RInt(90)) /\ RLe(RInt(80), score) -> "A (Very High)"
      [] RLt(score, RInt(80)) /\ RLe(RInt(70), score) -> "B (High)"
      [] RLt(score, RInt(70)) /\ RLe(RInt(60), score) -> "C (Moderate)"
      [] RLt(score, RInt(60)) /\ RLe(RInt(50), score) -> "D (Low)"
      [] RLt(score, RInt(50)) -> "F (Very Low)"

\* C19: in every ConfidenceScore returned, the grade is the band of the
\* overall_score reported in the same record
C19_GradeIsBandOfReportedScore ==
    Scored =>
        \A n \in DOMAIN Scores : Scores[n].grade = ClaimBand(Scores[n].overall_score)

-----------------------------------------------------------------------------
(* Properties of the historical series builder.                            *)

NoRowsGiven == input.table.none \/ Len(input.table.rows) = 0

\* C20: given an input with zero rows, or no input, the builder returns an
\* empty series, and the forecast made from it is the 'cannot forecast'
\* outcome (the empty forecast: revenue 0 in the scenario 'Empty'), not a
\* projection
C20_NoRowsGivesEmptySeries ==
    NoRowsGiven =>
        /\ pc \in {"built", "done"} => historical_data = <<>>
        /\ pc = "done" =>
              \A i \in 1..Len(forecast_data) :
                  /\ forecast_data[i].scenario = "Empty"
                  /\ forecast_data[i].revenue = Zero

\* C21: a historical series built from dated records is ordered ascending by
\* period date and has no two points with the same period label
C21_SeriesSortedLabelsUnique ==
    (pc \in {"built", "done"} /\ IsDatedInput(input.table)) =>
        /\ \A i \in 1..(Len(historical_data) - 1) :
              /\ TsLe(historical_data[i].date, historical_data[i + 1].date)
              /\ historical_data[i].date # historical_data[i + 1].date
        /\ \A i, j \in 1..Len(historical_data) :
              historical_data[i].period = historical_data[j].period => i = j


-----------------------------------------------------------------------------
(* Properties of the perspectives.                                         *)

Generated(call) == persp_out # <<>> /\ persp_out[1].call = call
Perspective == persp_out[1].forecast

\* the confidence of a project as the heuristic is stated, in hundredths
ClaimConfidence(project) ==
    LET raw == 70
               + (IF project.status = "Active" THEN 20
                  ELSE IF project.status = "Pipeline" THEN -10 ELSE 0)
               + (IF ContainsExisting(project.client) THEN 15 ELSE 0)
               + (IF project.offering \in {"Core Services", "Established Products"}
                  THEN 10 ELSE 0)
    IN  R(IF raw > 100 THEN 100 ELSE IF raw < 0 THEN 0 ELSE raw, 100)

\* the metadata rows of a project
MetaRows(pid) ==
    {i \in 1..Len(persp_in.projects_df) : persp_in.projects_df[i].project_id = pid}
\* a project with at most one metadata row has one confidence, or none
Unambiguous(r) == Cardinality(MetaRows(r.project_id)) <= 1
ClaimPasses(r, bar) ==
    \E i \in MetaRows(r.project_id) :
        RLe(bar, ClaimConfidence(persp_in.projects_df[i]))

\* the rows that a perspective is to hold: the base rows of the projects that
\* pass the bar, in the order of the base rows, with the revenue scaled
ClaimPerspective(bar, factor, perspective, confidence_level, risk_adjustment) ==
    LET kept == SelectSeq(persp_in.base_data,
                          LAMBDA r : Unambiguous(r) /\ ClaimPasses(r, bar))
    IN  [i \in 1..Len(kept) |->
            [project_id |-> kept[i].project_id, year |-> kept[i].year,
             month |-> kept[i].month, revenue |-> RMul(kept[i].revenue, factor),
             perspective |-> perspective, confidence_level |-> confidence_level,
             risk_adjustment |-> risk_adjustment]]

ClaimFinanceFactor ==
    RMul(assumptions.finance_conservatism, RSub(One, assumptions.finance_risk_buffer))
ClaimSalesFactor ==
    RMul(RMul(assumptions.sales_optimism, assumptions.sales_pipeline_confidence),
         assumptions.sales_acceleration_factor)

-----------------------------------------------------------------------------
(* Properties of the updates of an assumptions record.                     *)

\* C23: an update of an assumptions record is atomic for readers: what a
\* reader reads while an update of several fields is in flight is the record
\* before the update or the record after it, never one with only some of the
\* fields updated
C23_ReaderSeesOldOrNew ==
    seen # <<>> => (seen[1].value = seen[1].old \/ seen[1].value = seen[1].new)


-----------------------------------------------------------------------------
(* Properties of the builder's effects.                                    *)

\* C24: building the historical series has no side effects: after
\* RevenueForecaster was constructed on a table that has rows, the caller's
\* table holds the same values in every column as before the call
C24_InputTableUntouched ==
    (pc \in {"built", "done"} /\ ~NoRowsGiven) => table = input.table


-----------------------------------------------------------------------------
(* Properties of the anomalies.                                            *)

Detected == anomalies_out # <<>>
Anomalies == anomalies_out[1]

\* how many anomalies of a type name a scenario and a period
CountOf(type, scenario, period) ==
    Cardinality({k \in 1..Len(Anomalies) :
        /\ Anomalies[k].type = type
        /\ Anomalies[k].scenario = scenario
        /\ Anomalies[k].period = period})

\* the periods of a scenario in their order
ClaimPeriodsInOrder(n) == SortValuesByPeriod(score_in.scenarios[n].monthly_totals)
\* the growth rate from a period to the next exceeds k00 %, in magnitude
ClaimGrowthExceeds(prev, next, k) ==
    /\ prev # Zero
    /\ RLt(RMul(RInt(k), RAbs(prev)), RAbs(RSub(next, prev)))

\* C25: detect_forecast_anomalies emits, for every scenario, exactly one zero
\* revenue anomaly (severity Medium) per period whose value is exactly 0, and
\* one extreme growth anomaly for each consecutive pair of periods whose growth
\* rate exceeds 200 % in magnitude (High if it exceeds 500 %, else Medium);
\* both checks run whatever the other checks emitted (a growth rate is taken
\* to exist when the earlier revenue is not zero)
C25_ZeroAndGrowthAnomalies ==
    Detected =>
        \A n \in DOMAIN score_in.scenarios :
            LET rows == ClaimPeriodsInOrder(n)
            IN  /\ \A i \in 1..Len(rows) :
                      CountOf("Zero Revenue", n, rows[i].period)
                          = (IF rows[i].revenue_adjusted = Zero THEN 1 ELSE 0)
                /\ \A i \in 2..Len(rows) :
                      LET prev == rows[i - 1].revenue_adjusted
                          next == rows[i].revenue_adjusted
                      IN  prev # Zero =>
                            CountOf("Extreme Growth", n, rows[i].period)
                                = (IF ClaimGrowthExceeds(prev, next, 2) THEN 1 ELSE 0)
                /\ \A k \in 1..Len(Anomalies) :
                      Anomalies[k].scenario = n =>
                          /\ Anomalies[k].type = "Zero Revenue" =>
                                /\ Anomalies[k].severity = "Medium"
                                /\ Anomalies[k].value = Zero
                          /\ Anomalies[k].type = "Extreme Growth" =>
                                \E i \in 2..Len(rows) :
                                    /\ rows[i].period = Anomalies[k].period
                                    /\ ClaimGrowthExceeds(rows[i - 1].revenue_adjusted,
                                                          rows[i].revenue_adjusted, 2)
                                    /\ Anomalies[k].severity =
                                          (IF ClaimGrowthExceeds(rows[i - 1].revenue_adjusted,
                                                                 rows[i].revenue_adjusted, 5)
                                           THEN "High" ELSE "Medium")


-----------------------------------------------------------------------------
(* Properties of the choice of the risk factors.                           *)

\* the factors of the catalog that the filter calls for: those that apply to
\* 'all' or to one of the filter's dimensions, each one once
ClaimApplicable(rfs, dimension_filters) ==
    SelectSeq(rfs, LAMBDA rf :
        \/ IsIn("all", rf.applies_to)
        \/ \E i \in 1..Len(dimension_filters) :
              IsIn(dimension_filters[i].dimension, rf.applies_to))

\* C26: calculate_risk_adjusted_forecast applies, in each of the scenarios
\* optimistic, pessimistic and most_likely, exactly the factors of the catalog
\* whose applies_to contains 'all' or one of the filter's dimensions, each of
\* them once, whatever the number of dimension filters; 'base' is the input
C26_EachApplicableFactorOnce ==
    RiskCalled =>
        /\ RiskResult.scenarios.base = RiskResult.base_forecast
        /\ \A t \in ScenarioTypes :
              LET adjusted == RiskResult.scenarios[t]
                  base == RiskResult.base_forecast
                  k == ClaimRiskProduct(
                           ClaimApplicable(risk_factors, RiskResult.dimension_filters), t)
              IN  /\ Len(adjusted.rows) = Len(base.rows)
                  /\ \A i \in 1..Len(base.rows) :
                        adjusted.rows[i].revenue = RMul(base.rows[i].revenue, k)


-----------------------------------------------------------------------------
(* Properties of the scenario store.                                       *)

\* C27: after any sequence of create, delete, set_active and
\* update_scenario_assumptions calls, the scenario 'Base Case' exists and
\* active_scenario names a scenario that exists
C27_BaseCaseAndActiveExist ==
    /\ "Base Case" \in DOMAIN scenarios
    /\ active_scenario \in DOMAIN scenarios

\* C27's case: Stretch was created and made active, a built-in scenario was
\* deleted, and the last call was an update that succeeded
C27_Witness ==
    /\ "Stretch" \in DOMAIN scenarios
    /\ active_scenario = "Stretch"
    /\ "Optimistic" \notin DOMAIN scenarios
    /\ store_ret.op = "update" /\ store_ret.ok

\* C28: a rejected scenario operation changes nothing: a create with a name
\* that exists, a delete of 'Base Case' or of an unknown name, a set_active or
\* an update with an unknown name each return failure and leave the scenarios,
\* their assumptions and active_scenario as they were
C28_RejectedCallChangesNothing ==
    [][store_ret'.ok = FALSE => UNCHANGED <<scenarios, dicts, active_scenario>>]_vars

\* C28's case: calls were rejected on a store that is not the initial one
C28_Witness ==
    /\ store_ret.ok = FALSE
    /\ store_ret.op = "delete" /\ store_ret.name = "Base Case"
    /\ "Stretch" \in DOMAIN scenarios
    /\ active_scenario = "Stretch"
    /\ AssumptionsOf(scenarios, dicts, "Base Case").growth_rate = 7


-----------------------------------------------------------------------------
(* Properties of the order of the risk scenarios.                          *)

BoundsInOrder(rf) == RLe(rf.min_value, rf.base_value) /\ RLe(rf.base_value, rf.max_value)

\* C29: for a base forecast without negative revenue and risk factors that
\* each satisfy min_value <= base_value <= max_value, the scenarios are in
\* order in every period: optimistic >= most_likely >= pessimistic
C29_ScenariosInOrder ==
    (/\ RiskCalled
     /\ \A i \in 1..Len(RiskResult.base_forecast.rows) :
           RLe(Zero, RiskResult.base_forecast.rows[i].revenue)
     /\ \A j \in 1..Len(risk_factors) : BoundsInOrder(risk_factors[j]))
    => \A i \in 1..Len(RiskResult.base_forecast.rows) :
           /\ RLe(RiskResult.scenarios.most_likely.rows[i].revenue,
                  RiskResult.scenarios.optimistic.rows[i].revenue)
           /\ RLe(RiskResult.scenarios.pessimistic.rows[i].revenue,
                  RiskResult.scenarios.most_likely.rows[i].revenue)


-----------------------------------------------------------------------------
(* Properties of the totals of a reconciliation.                           *)

\* C30: in every result of reconcile_forecasts the totals agree with the
\* records: total_variance = sales_total - finance_total, and under
\* finance_priority reconciled_total = finance_total (under sales_priority,
\* sales_total), also when a period occurs in one input only
C30_TotalsAgree ==
    Called =>
        /\ Result.variance_analysis.total_variance
              = XAdd(Result.sales_total, XNeg(Result.finance_total))
        /\ assumptions.reconciliation_method = "finance_priority" =>
              Result.reconciled_total = Result.finance_total
        /\ assumptions.reconciliation_method = "sales_priority" =>
              Result.reconciled_total = Result.sales_total

=============================================================================
